---------------------------- MODULE Spec2Model ----------------------------
(***************************************************************************)
(* A model of the BDPriceGear scraping and catalog-ingestion pipeline:     *)
(*   - the three ingestion paths into the Product / PriceHistory tables    *)
(*     (populate_catalog, populate_products, tasks.save_scraped_products), *)
(*   - URL normalization (normalize_product_url) and price values,         *)
(*   - the paginated catalog crawlers (catalog_scraper.py),                *)
(*   - the per-category orchestrator of populate_catalog (thread pool,     *)
(*     queue and save worker).                                             *)
(* Prices are integers counting hundredths of a taka: 2500 is 25.00.       *)
(***************************************************************************)
EXTENDS Integers, Sequences, FiniteSets, TLC

\* ------------------------------------------------------------------ bounds
\* products in one shop result saved by populate_catalog
MaxItems == 2
\* products per shop in the scraped_data of save_products / save_scraped_products
MaxListed == 1
\* rows of the PriceHistory table
MaxHistory == 3
\* the page caps (max_pages) a crawl is given: 1..MaxPagesCap
MaxPagesCap == 5
\* product cards on a result page that has any
PerPage == 2
\* shops of the scrapers list that take part in a run
NumShops == 3

VARIABLES
    products,   \* the Product table: a sequence of rows, a row's pk is its index
    history,    \* the PriceHistory table in insertion (recorded_at) order
    last        \* the last save: its path and shop, when it was handed a
                \* single product, that product (else <<>>), and its counts

dbVars == <<products, history, last>>

\* The catalog crawl that is looked at.
VARIABLES
    crawl,      \* the locals of one scrape_<shop>_catalog(category, max_pages) call
    fetched,    \* the pages it has requested, in order: [page, attempts, outcome]
    CLOUDSCRAPER_AVAILABLE  \* whether  import cloudscraper  succeeded

crawlVars == <<crawl, fetched, CLOUDSCRAPER_AVAILABLE>>

\* The run of one category or search term.
VARIABLES
    command,          \* the management command that runs
    futures,          \* per shop, its scraper call submitted to the executor
    completed,        \* the shops in the order their scraper calls returned
    main,             \* the command's own thread: where it is, and which future
                      \* of the submission order it waits for
    data_queue,       \* queue.Queue(): (shop, result) items and the None sentinel
    unfinished_tasks, \* the queue's count of items put and not yet task_done()
    worker,           \* the save_worker thread
    enqueued,         \* the shops in the order their results were put
    gave_up,          \* the shops whose save failed on every attempt
    totals,           \* total_created and total_updated of the run
    report,           \* what the run reported when it ended
    skipped           \* the batches whose write raised, with the times tried

VARIABLES
    cache,      \* price_cache.cache: per key its entry, or none
    clock,      \* time.time()
    request     \* the price_comparison requests in progress

VARIABLES
    session     \* one run of run_dynamic: the browser, its context, and per
                \* dynamic scraper its call and its page

VARIABLES
    norm        \* one use of the item normalizers: the raw link or the raw
                \* price text of a card and what the functions return for it

VARIABLES
    update,     \* trigger_update: the 'update_in_progress' cache key, the POST
                \* requests and the background runs they started
    pool        \* the BrowserPool: its contexts, its queue of available
                \* contexts and the contexts its callers hold

orchVars ==
    <<command, futures, completed, main, data_queue, unfinished_tasks, worker,
      enqueued, gave_up, totals, report, skipped>>

cacheVars == <<cache, clock, request>>

\* ------------------------------------------------------------------ values
\* The shops whose rows the model keeps, in the order scraped_data lists them.
Shops == <<"StarTech">>

ShopSet == {Shops[i] : i \in 1..Len(Shops)}

\* normalize_price yields a float or the string "Out of Stock" / "Out Of Stock";
\* NoPrice stands for the string.
NoPrice == -1

\* A float made from a two-decimal price text equals the Decimal the database
\* stores exactly when its fraction is .00, .25, .50 or .75.
FloatExact(p) == p % 25 = 0

\* latest_history.price != product.current_price: the left side is the Decimal
\* read back from the table, the right side the float (or the int 0) the caller
\* passed in 'defaults'; Python compares the two exactly.
DecimalNeFloat(d, f) == ~(d = f /\ FloatExact(f))

\* isinstance(price, str) or price == 0 or price is None
IsInvalidPrice(price) == price = NoPrice \/ price = 0

\* --------------------------------------------------------------------- URLs
\* A URL is [path, query, frag]; query is the sequence of its  k=v  pairs.
Url(path, query, frag) == [path |-> path, query |-> query, frag |-> frag]

Param(k, v) == [k |-> k, v |-> v]

\* The mutant of params_to_remove: 'page' is not dropped.
params_without_page == {"search", "q", "keyword", "sort", "order", "limit"}
params_to_remove == {"page", "search", "q", "keyword", "sort", "order", "limit"}

\* str.lower on the parameter names the model uses
Lower(k) ==
    CASE k = "Page" -> "page"
      [] k = "Q" -> "q"
      [] k = "ID" -> "id"
      [] OTHER -> k

RECURSIVE GroupByKey(_)
\* parse_qs builds a dict name -> list of values: the names keep the order of
\* their first occurrence and each name's values keep theirs; urlencode with
\* doseq=True writes the dict back name by name.
GroupByKey(q) ==
    IF q = <<>> THEN <<>>
    ELSE LET k == q[1].k
             Same(p) == p.k = k
             Other(p) == p.k # k
         IN  SelectSeq(q, Same) \o GroupByKey(SelectSeq(q, Other))

\* The mutant of unquote_plus: the escapes are left as they are.
NoUnquote(v) == v

\* parse_qs turns '+' and %XX escapes into the characters they stand for (on
\* the texts the model uses).
unquote_plus(v) ==
    CASE v = "a%20b" -> "a b"
      [] v = "a+b" -> "a b"
      [] v = "a%2520b" -> "a%20b"
      [] v = "%70age" -> "page"
      [] OTHER -> v

\* urlencode writes every name and value with quote_plus: a space becomes '+'
\* and '%' becomes %25.
quote_plus(v) ==
    CASE v = "a b" -> "a+b"
      [] v = "a%20b" -> "a%2520b"
      [] v = "a%2520b" -> "a%252520b"
      [] v = "%70age" -> "%2570age"
      [] OTHER -> v

RECURSIVE urlencode(_)
\* urllib.parse.urlencode(filtered_params, doseq=True)
urlencode(q) ==
    IF q = <<>> THEN <<>>
    ELSE <<Param(quote_plus(q[1].k), quote_plus(q[1].v))>> \o urlencode(Tail(q))

RECURSIVE parse_qsl(_)
\* The pairs parse_qs reads: it drops the pairs with a blank value
\* (keep_blank_values defaults to False) and unquotes the others.
parse_qsl(q) ==
    IF q = <<>> THEN <<>>
    ELSE (IF q[1].v = "" THEN <<>>
          ELSE <<Param(unquote_plus(q[1].k), unquote_plus(q[1].v))>>)
         \o parse_qsl(Tail(q))

\* urllib.parse.parse_qs, the filter on k.lower() and urlencode.
FilteredParams(q) ==
    LET Kept(p) == Lower(p.k) \notin params_to_remove
    IN  urlencode(GroupByKey(SelectSeq(parse_qsl(q), Kept)))

normalize_product_url(url) ==
    IF url.path = "" /\ url.query = <<>> /\ url.frag = "" THEN url
    ELSE Url(url.path, FilteredParams(url.query), "")

\* The links an adapter writes when a card has no usable link.
HashLink == Url("#", <<>>, "")

NotFoundLink == Url("Link not found", <<>>, "")

EmptyLink == Url("", <<>>, "")

\* not raw_url or raw_url in ['#', 'Link not found', '']
IsPlaceholderLink(link) == link \in {EmptyLink, HashLink, NotFoundLink}

\* --------------------------------------------------------------- the tables
Row(shop, url, price, stock, avail) ==
    [shop |-> shop, url |-> url, price |-> price, stock |-> stock, avail |-> avail]

HistoryRow(pk, price, stock) == [product |-> pk, price |-> price, stock |-> stock]

Db(prods, hist, created, updated) ==
    [products |-> prods, history |-> hist, created |-> created, updated |-> updated]

\* Product.objects.filter(shop=shop, product_url=url): the pks that match
Matching(prods, shop, url) ==
    {i \in 1..Len(prods) : prods[i].shop = shop /\ prods[i].url = url}

SetMax(S) == CHOOSE x \in S : \A y \in S : y <= x

\* product.price_history.first() under Meta.ordering = ['-recorded_at']: the pk's
\* most recently recorded row, 0 when it has none
LatestHistory(hist, pk) ==
    LET mine == {i \in 1..Len(hist) : hist[i].product = pk}
    IN  IF mine = {} THEN 0 ELSE SetMax(mine)

\* Product.save: a zero price forces out_of_stock and is_available = False
ProductSave(row) ==
    IF row.price = 0
    THEN [row EXCEPT !.stock = "out_of_stock", !.avail = FALSE]
    ELSE row

\* Product.objects.update_or_create(shop=, product_url=, defaults=): the row that
\* matches (shop, url) is overwritten and saved, or a new row is inserted; the
\* unique_together constraint leaves at most one match.
UpdateOrCreate(prods, shop, url, price, stock, avail) ==
    LET found == Matching(prods, shop, url)
        row == ProductSave(Row(shop, url, price, stock, avail))
    IN  IF found = {}
        THEN [products |-> Append(prods, row), pk |-> Len(prods) + 1, created |-> TRUE]
        ELSE LET pk == CHOOSE i \in found : TRUE
             IN  [products |-> [prods EXCEPT ![pk] = row], pk |-> pk, created |-> FALSE]

\* The mutant of RecordPriceHistory: the product's latest row is overwritten
\* with the new price.
RewritePriceHistory(hist, pk, row) ==
    IF \E i \in 1..Len(hist) : hist[i].product = pk
    THEN [hist EXCEPT ![SetMax({i \in 1..Len(hist) : hist[i].product = pk})] =
              HistoryRow(pk, row.price, row.stock)]
    ELSE Append(hist, HistoryRow(pk, row.price, row.stock))

\* "Record price history": a row is written when the product has none or when the
\* latest row's price differs from the product's current price
RecordPriceHistory(hist, pk, row) ==
    LET latest == LatestHistory(hist, pk)
    IN  IF latest = 0 \/ DecimalNeFloat(hist[latest].price, row.price)
        THEN Append(hist, HistoryRow(pk, row.price, row.stock))
        ELSE hist


\* -------------------------------------- populate_products: Command.save_products
\* One product_data of the loop over a shop's products.
SaveProductsItem(db, shop, it) ==
    IF IsPlaceholderLink(it.link) THEN db
    ELSE LET invalid == IsInvalidPrice(it.price)
             stock == IF invalid \/ ~it.in_stock THEN "out_of_stock" ELSE "in_stock"
             avail == IF invalid THEN FALSE ELSE stock = "in_stock"
             price == IF invalid THEN 0 ELSE it.price
             r == UpdateOrCreate(db.products, shop, it.link, price, stock, avail)
         IN  Db(r.products,
                RecordPriceHistory(db.history, r.pk, r.products[r.pk]),
                db.created + (IF r.created THEN 1 ELSE 0),
                db.updated + (IF r.created THEN 0 ELSE 1))

RECURSIVE SaveProductsShop(_, _, _, _)
\* for product_data in products, from index i on
SaveProductsShop(db, shop, items, i) ==
    IF i > Len(items) THEN db
    ELSE SaveProductsShop(SaveProductsItem(db, shop, items[i]), shop, items, i + 1)

RECURSIVE SaveProducts(_, _, _, _)
\* for shop_name, shop_data in scraped_data.items(), from the k-th shop on; the
\* whole call is one transaction (@transaction.atomic)
SaveProducts(db, shops, scraped_data, k) ==
    IF k > Len(shops) THEN db
    ELSE SaveProducts(SaveProductsShop(db, shops[k], scraped_data[shops[k]], 1),
                      shops, scraped_data, k + 1)

\* ------------------------------------------------ tasks: save_scraped_products
SaveScrapedItem(db, shop, it) ==
    IF it.price = NoPrice \/ it.price = 0 THEN db
    ELSE IF IsPlaceholderLink(it.link) THEN db
    ELSE LET stock == IF it.in_stock THEN "in_stock" ELSE "out_of_stock"
             r == UpdateOrCreate(db.products, shop, it.link, it.price, stock, TRUE)
         IN  Db(r.products,
                RecordPriceHistory(db.history, r.pk, r.products[r.pk]),
                db.created + (IF r.created THEN 1 ELSE 0),
                db.updated + (IF r.created THEN 0 ELSE 1))

RECURSIVE SaveScrapedShop(_, _, _, _)
SaveScrapedShop(db, shop, items, i) ==
    IF i > Len(items) THEN db
    ELSE SaveScrapedShop(SaveScrapedItem(db, shop, items[i]), shop, items, i + 1)

RECURSIVE SaveScrapedProducts(_, _, _, _)
SaveScrapedProducts(db, shops, scraped_data, k) ==
    IF k > Len(shops) THEN db
    ELSE SaveScrapedProducts(SaveScrapedShop(db, shops[k], scraped_data[shops[k]], 1),
                             shops, scraped_data, k + 1)


\* ------------------------------- populate_catalog: Command._save_product_batch
\* The links of the batch that are not placeholders, normalized (product_urls).
BatchUrls(batch) ==
    {normalize_product_url(batch[i].link) :
        i \in {j \in 1..Len(batch) : ~IsPlaceholderLink(batch[j].link)}}

\* existing_by_url: the shop's rows whose product_url is one of the batch's urls
ExistingByUrl(prods, shop, batch) ==
    {i \in 1..Len(prods) : prods[i].shop = shop /\ prods[i].url \in BatchUrls(batch)}

\* "Price history if changed": float(existing_product.current_price) !=
\* float(current_price), evaluated after existing_product.current_price was
\* assigned current_price, so existing_product is the object as updated
PriceChanged(existing_product, current_price) ==
    existing_product.price # current_price

\* What bulk_create(..., ignore_conflicts=True) leaves in product.pk of the object
\* whose row got primary key pk: with ignore_conflicts Django does not set the
\* primary key on the instances, so  "if product.pk"  sees None (0 here).
PkAfterBulkCreate(pk) == 0

\* The mutant of BatchFields: an item without a valid price stays available.
BatchFieldsAvailable(price) ==
    IF IsInvalidPrice(price)
    THEN [stock |-> "out_of_stock", avail |-> TRUE, price |-> 0]
    ELSE [stock |-> "in_stock", avail |-> TRUE, price |-> price]

\* stock_status, is_available and current_price of an item with this price
BatchFields(price) ==
    IF IsInvalidPrice(price)
    THEN [stock |-> "out_of_stock", avail |-> FALSE, price |-> 0]
    ELSE [stock |-> "in_stock", avail |-> TRUE, price |-> price]

\* The loop's accumulators before the first item.
BatchAcc(prods, shop, batch) ==
    [urls_in_batch |-> {prods[i].url : i \in ExistingByUrl(prods, shop, batch)},
     to_create |-> <<>>, to_update |-> <<>>, price_histories |-> <<>>,
     created |-> 0, updated |-> 0]

\* One product_data of the loop; prods is the table as read before the loop.
BatchItem(acc, prods, shop, batch, it) ==
    IF IsPlaceholderLink(it.link) THEN acc
    ELSE LET product_url == normalize_product_url(it.link)
             existing == {i \in ExistingByUrl(prods, shop, batch) :
                             prods[i].url = product_url}
         IN  IF product_url \in acc.urls_in_batch /\ existing = {} THEN acc
             ELSE LET f == BatchFields(it.price)
                      stock == f.stock
                      price == f.price
                      row == Row(shop, product_url, price, stock, f.avail)
                      seen == acc.urls_in_batch \cup {product_url}
                  IN  IF existing # {}
                      THEN LET pk == CHOOSE i \in existing : TRUE
                           IN  [acc EXCEPT
                                  !.urls_in_batch = seen,
                                  !.to_update = Append(@, [pk |-> pk, row |-> row]),
                                  !.updated = @ + 1,
                                  !.price_histories =
                                      IF PriceChanged(row, price)
                                      THEN Append(@, HistoryRow(pk, price, stock))
                                      ELSE @]
                      ELSE [acc EXCEPT
                              !.urls_in_batch = seen,
                              !.to_create = Append(@, row),
                              !.created = @ + 1]

RECURSIVE BatchLoop(_, _, _, _, _)
BatchLoop(acc, prods, shop, batch, i) ==
    IF i > Len(batch) THEN acc
    ELSE BatchLoop(BatchItem(acc, prods, shop, batch, batch[i]), prods, shop, batch, i + 1)

RECURSIVE BulkCreate(_, _, _, _)
\* Product.objects.bulk_create(products_to_create, ignore_conflicts=True), then
\* the baseline PriceHistory of every returned product that has a pk: a row that
\* would break unique_together is not inserted
BulkCreate(prods, hist, rows, i) ==
    IF i > Len(rows) THEN [products |-> prods, price_histories |-> hist]
    ELSE LET row == rows[i]
             inserted == Matching(prods, row.shop, row.url) = {}
             prods1 == IF inserted THEN Append(prods, row) ELSE prods
             pk == IF inserted THEN PkAfterBulkCreate(Len(prods1)) ELSE 0
             hist1 == IF pk # 0 THEN Append(hist, HistoryRow(pk, row.price, row.stock))
                      ELSE hist
         IN  BulkCreate(prods1, hist1, rows, i + 1)

RECURSIVE BulkUpdate(_, _, _)
\* Product.objects.bulk_update(products_to_update, [...])
BulkUpdate(prods, ups, i) ==
    IF i > Len(ups) THEN prods
    ELSE BulkUpdate([prods EXCEPT ![ups[i].pk] = ups[i].row], ups, i + 1)

SaveProductBatch(db, shop, batch) ==
    LET acc == BatchLoop(BatchAcc(db.products, shop, batch), db.products, shop, batch, 1)
        c == BulkCreate(db.products, acc.price_histories, acc.to_create, 1)
    IN  Db(BulkUpdate(c.products, acc.to_update, 1),
           db.history \o c.price_histories,
           db.created + acc.created,
           db.updated + acc.updated)

\* batch_size of save_shop_products (50 in the source), scaled to the model's
\* item bound
batch_size == 2

Min(a, b) == IF a < b THEN a ELSE b

\* The indexes at which the batches of n products start: range(0, n, batch_size)
BatchStarts(n) == {i \in 1..n : (i - 1) % batch_size = 0}

\* The mutant of AfterFailedBatch: a failed batch ends the loop over the batches.
AbortAfterFailedBatch(i, n) == n + 1

\* except Exception: logger.error(...) -- the loop goes on with the next batch
AfterFailedBatch(i, n) == i + batch_size

RECURSIVE SaveShopBatches(_, _, _, _, _)
\* Command.save_shop_products: the products in slices of batch_size from index
\* i on, each slice in its own transaction.atomic(); the write of the slices
\* that start at an index in failed raises, which rolls that slice back and
\* leaves its counts out.
SaveShopBatches(db, shop, products_data, i, failed) ==
    IF i > Len(products_data) THEN db
    ELSE LET batch == SubSeq(products_data, i, Min(i + batch_size - 1, Len(products_data)))
         IN  IF i \in failed
             THEN SaveShopBatches(db, shop, products_data,
                                  AfterFailedBatch(i, Len(products_data)), failed)
             ELSE SaveShopBatches(SaveProductBatch(db, shop, batch), shop,
                                  products_data, i + batch_size, failed)

\* populate_catalog: Command.save_shop_products when no write fails
SaveShopProducts(db, shop, products_data, i) ==
    SaveShopBatches(db, shop, products_data, i, {})


\* ------------------------------------------------------- the scraped inputs
\* Two links of one product page, one with a pagination parameter, and the
\* placeholder link; a price text with an exact float, one without, and none.
LinkA == Url("/product/1", <<>>, "")

LinkB == Url("/product/1", <<Param("page", "2")>>, "")

LinkC == Url("/product/2", <<>>, "")

LinkD == Url("/product/3", <<>>, "")

Links == {LinkA, LinkB, HashLink}

Prices == {NoPrice, 2500, 1999}

Item(link, price, in_stock) == [link |-> link, price |-> price, in_stock |-> in_stock]

\* The scrapers write "in_stock": True or leave the key out, which save_products
\* and save_scraped_products read as True.
Items ==
    {Item(l, p, TRUE) : l \in Links \ {HashLink}, p \in Prices}
    \cup {Item(HashLink, 2500, TRUE)}

ItemSeqs(n) == UNION {[1..m -> Items] : m \in 1..n}

\* What the scrapers hand to a save: a product list per shop.
ScrapedData == [ShopSet -> ItemSeqs(MaxListed)]

\* ---------------------------------------------------------------- ingestion
\* The distinct normalized URLs among the products a save is handed, the
\* placeholder links left out.
DistinctUrls(items) ==
    {normalize_product_url(items[i].link) :
        i \in {j \in 1..Len(items) : ~IsPlaceholderLink(items[j].link)}}

\* A save as  last  remembers it: its path, its shop, the product when it was
\* handed a single one, the number of distinct URLs it was handed and the
\* (created_count, updated_count) it returned.
Call(path, shop, items) ==
    [path |-> path, shop |-> shop, items |-> IF Len(items) = 1 THEN items ELSE <<>>,
     urls |-> Cardinality(DistinctUrls(items)), created |-> 0, updated |-> 0]

InitDb ==
    /\ products = <<>>
    /\ history = <<>>
    /\ last = Call("none", Shops[1], <<>>)

\* A save commits its transaction(s); last is kept only in the traced
\* specification.
Commit(db, call, traced) ==
    /\ Len(db.history) <= MaxHistory
    /\ products' = db.products
    /\ history' = db.history
    /\ last' = IF traced
               THEN [call EXCEPT !.created = db.created, !.updated = db.updated]
               ELSE last
    /\ UNCHANGED <<crawlVars, orchVars, cacheVars, session, norm, update, pool>>

CurrentDb == Db(products, history, 0, 0)

\* populate_catalog: the save worker saves one shop's scraped result
PopulateCatalog(traced) ==
    \E shop \in ShopSet, items \in ItemSeqs(MaxItems) :
        Commit(SaveShopProducts(CurrentDb, shop, items, 1),
               Call("populate_catalog", shop, items), traced)

\* populate_products: save_products(scraped_data, search_term)
PopulateProducts(traced) ==
    \E data \in ScrapedData :
        Commit(SaveProducts(CurrentDb, Shops, data, 1),
               Call("populate_products", Shops[1], data[Shops[1]]), traced)

\* scrape_all_shops: save_scraped_products(scraped_data, term)
ScheduledScrape(traced) ==
    \E data \in ScrapedData :
        Commit(SaveScrapedProducts(CurrentDb, Shops, data, 1),
               Call("tasks", Shops[1], data[Shops[1]]), traced)

NextDb(traced) ==
    PopulateCatalog(traced) \/ PopulateProducts(traced) \/ ScheduledScrape(traced)

\* ------------------------------------------------------- the catalog crawlers
\* The scrapers list of run_all_scrapers_streaming.
Scrapers == <<"StarTech", "SkyLand", "PcHouse", "UltraTech", "PotakaIT", "Ryans", "Binary">>

\* What one request of a result page can come to.  The pages served with
\* http_403 and http_500 and the challenge page carry no product card; an
\* items page carries PerPage cards; a malformed page carries PerPage cards of
\* which the last has an <img> without src.
Responses ==
    {"items", "malformed", "empty", "challenge", "http_403", "http_500",
     "timeout", "connection_error", "request_error"}

Fetched(page, attempts, outcome) ==
    [page |-> page, attempts |-> attempts, outcome |-> outcome]

NewCrawl(shop, max_pages) ==
    [shop |-> shop, max_pages |-> max_pages, pc |-> "loop", page |-> 1,
     consecutive_empty |-> 0, consecutive_errors |-> 0, products |-> 0,
     returned |-> 0, stop |-> "running"]

\* No crawl: the value of crawl where no scraper is looked at.
NoCrawl == [NewCrawl("none", 0) EXCEPT !.pc = "idle", !.stop = "idle"]

\* return: the call hands n products to its caller
Return(c, n, why) == [c EXCEPT !.pc = "done", !.returned = n, !.stop = why]

\* break, then  return {"products": products, ...}  after the loop
Break(c, why) == Return(c, c.products, why)

\* The mutant of WithinCap: the last page of the cap is never requested.
WithinCapExclusive(page, max_pages) == page < max_pages

\* while page <= max_pages
WithinCap(page, max_pages) == page <= max_pages

\* The mutant of Loop: the loop goes on whatever the page number.
LoopOn(c) == c

\* The loop test before the next iteration.
Loop(c) == IF WithinCap(c.page, c.max_pages) THEN c ELSE Break(c, "cap")

\* The mutant of StopOnEmpty: three empty pages in a row are needed.
StopOnThirdEmpty(consecutive_empty) == consecutive_empty >= 3

\* if consecutive_empty >= 2: break
StopOnEmpty(consecutive_empty) == consecutive_empty >= 2

\* The mutant of AfterItems: a page with items leaves the count as it is.
AfterItemsKept(consecutive_empty) == consecutive_empty

\* consecutive_empty = 0  after a page with items
AfterItems(consecutive_empty) == 0

\* if not items: consecutive_empty += 1; break at 2, else page += 1; continue
EmptyPage(c) ==
    LET d == [c EXCEPT !.consecutive_empty = @ + 1]
    IN  IF StopOnEmpty(d.consecutive_empty) THEN Break(d, "exhausted")
        ELSE Loop([d EXCEPT !.page = @ + 1])

\* A page with cards: the count is reset, the first n cards are appended.
Collect(c, n) ==
    [c EXCEPT !.consecutive_empty = AfterItems(@), !.products = @ + n]

\* The mutant of ItemsPage: the page number stays as it is.
ItemsPageAgain(c, n) == Loop(Collect(c, n))

\* ... and page += 1 after the last card.
ItemsPage(c, n) == LET d == Collect(c, n) IN Loop([d EXCEPT !.page = @ + 1])

\* ---- scrape_startech_catalog, scrape_potakait_catalog: one request per page
StarTechFetch == {Fetched(0, 1, r) : r \in Responses}

StarTechPage(c, f) ==
    CASE f.outcome \in {"timeout", "connection_error"} -> EmptyPage(c)
      [] f.outcome = "request_error" -> Return(c, 0, "exception")
      [] f.outcome = "items" -> ItemsPage(c, PerPage)
      [] f.outcome = "malformed" -> Return(Collect(c, PerPage - 1), 0, "exception")
      [] OTHER -> EmptyPage(c)

\* ---- scrape_skyland_catalog, scrape_pchouse_catalog: a Timeout is retried once
SkyLandFetch ==
    UNION {IF r = "timeout" THEN {Fetched(0, 2, r2) : r2 \in Responses}
                            ELSE {Fetched(0, 1, r)} : r \in Responses}

\* raise_for_status() is called on the first response only.
SkyLandPage(c, f) ==
    CASE f.outcome \in {"timeout", "connection_error", "request_error"} -> Break(c, "error")
      [] f.outcome \in {"http_403", "http_500"} /\ f.attempts = 1 -> Break(c, "error")
      [] f.outcome \in {"items", "malformed"} -> ItemsPage(c, PerPage)
      [] OTHER -> EmptyPage(c)

\* ---- scrape_ultratech_catalog: Timeout and ConnectionError are retried
max_retries == 3

RECURSIVE UltraTechFetch(_)
\* for attempt in range(max_retries), from this attempt on
UltraTechFetch(attempt) ==
    UNION {IF r \in {"timeout", "connection_error"} /\ attempt < max_retries - 1
           THEN UltraTechFetch(attempt + 1)
           ELSE {Fetched(0, attempt + 1, r)} : r \in Responses}

\* After the last failed attempt  page += 1; continue  continues the for loop,
\* which ends and runs its else clause:  page += 1; continue  once more.
UltraTechPage(c, f) ==
    CASE f.outcome \in {"timeout", "connection_error"} ->
            LET d == [c EXCEPT !.consecutive_errors = @ + 1]
            IN  IF d.consecutive_errors >= 3 THEN Return(d, d.products, "errors")
                ELSE Loop([d EXCEPT !.page = @ + 2])
      [] f.outcome = "request_error" -> Return(c, c.products, "exception")
      [] f.outcome = "items" -> ItemsPage([c EXCEPT !.consecutive_errors = 0], PerPage)
      [] f.outcome = "malformed" ->
            LET d == Collect([c EXCEPT !.consecutive_errors = 0], PerPage - 1)
            IN  Return(d, d.products, "exception")
      [] OTHER -> EmptyPage([c EXCEPT !.consecutive_errors = 0])

\* ---- scrape_ryans_catalog, scrape_binary_catalog: cloudscraper, a 403 and an
\* exception are retried
RECURSIVE CloudFetch(_)
\* for retry in range(3), from this retry on
CloudFetch(retry) ==
    UNION {IF r \in {"http_403", "timeout", "connection_error", "request_error"}
              /\ retry < 2
           THEN CloudFetch(retry + 1)
           ELSE {Fetched(0, retry + 1, r)} : r \in Responses}

RyansPage(c, f) ==
    CASE f.outcome \in {"items", "malformed"} -> ItemsPage(c, PerPage)
      [] f.outcome = "empty" -> EmptyPage(c)
      [] f.outcome = "challenge" -> Break(c, "challenge")
      [] OTHER -> Break(c, "error")

\* Binary reads img["src"] unguarded and has no challenge test.
BinaryPage(c, f) ==
    CASE f.outcome = "items" -> ItemsPage(c, PerPage)
      [] f.outcome = "malformed" -> Break(Collect(c, PerPage - 1), "error")
      [] f.outcome \in {"empty", "challenge"} -> EmptyPage(c)
      [] OTHER -> Break(c, "error")

\* ---- the steps of a crawl: one iteration of the page loop
Request(f) == Append(fetched, Fetched(crawl.page, f.attempts, f.outcome))

StarTechCatalogPage ==
    /\ crawl.pc = "loop" /\ crawl.shop \in {"StarTech", "PotakaIT"}
    /\ \E f \in StarTechFetch :
          crawl' = StarTechPage(crawl, f) /\ fetched' = Request(f)
    /\ UNCHANGED <<CLOUDSCRAPER_AVAILABLE, dbVars, orchVars, cacheVars, session, norm, update, pool>>

SkyLandCatalogPage ==
    /\ crawl.pc = "loop" /\ crawl.shop \in {"SkyLand", "PcHouse"}
    /\ \E f \in SkyLandFetch :
          crawl' = SkyLandPage(crawl, f) /\ fetched' = Request(f)
    /\ UNCHANGED <<CLOUDSCRAPER_AVAILABLE, dbVars, orchVars, cacheVars, session, norm, update, pool>>

UltraTechCatalogPage ==
    /\ crawl.pc = "loop" /\ crawl.shop = "UltraTech"
    /\ \E f \in UltraTechFetch(0) :
          crawl' = UltraTechPage(crawl, f) /\ fetched' = Request(f)
    /\ UNCHANGED <<CLOUDSCRAPER_AVAILABLE, dbVars, orchVars, cacheVars, session, norm, update, pool>>

RyansCatalogPage ==
    /\ crawl.pc = "loop" /\ crawl.shop = "Ryans" /\ CLOUDSCRAPER_AVAILABLE
    /\ \E f \in CloudFetch(0) :
          crawl' = RyansPage(crawl, f) /\ fetched' = Request(f)
    /\ UNCHANGED <<CLOUDSCRAPER_AVAILABLE, dbVars, orchVars, cacheVars, session, norm, update, pool>>

BinaryCatalogPage ==
    /\ crawl.pc = "loop" /\ crawl.shop = "Binary" /\ CLOUDSCRAPER_AVAILABLE
    /\ \E f \in CloudFetch(0) :
          crawl' = BinaryPage(crawl, f) /\ fetched' = Request(f)
    /\ UNCHANGED <<CLOUDSCRAPER_AVAILABLE, dbVars, orchVars, cacheVars, session, norm, update, pool>>

\* if not CLOUDSCRAPER_AVAILABLE: return {"products": [], ...}
CloudscraperMissing ==
    /\ crawl.pc = "loop" /\ crawl.shop \in {"Ryans", "Binary"}
    /\ ~CLOUDSCRAPER_AVAILABLE
    /\ crawl' = Return(crawl, 0, "unavailable")
    /\ UNCHANGED <<fetched, CLOUDSCRAPER_AVAILABLE, dbVars, orchVars, cacheVars, session, norm, update, pool>>

InitCrawl ==
    /\ crawl \in {NewCrawl(Scrapers[i], m) : i \in 1..Len(Scrapers), m \in 1..MaxPagesCap}
    /\ fetched = <<>>
    /\ CLOUDSCRAPER_AVAILABLE \in BOOLEAN

IdleCrawl ==
    /\ crawl = NoCrawl
    /\ fetched = <<>>
    /\ CLOUDSCRAPER_AVAILABLE = TRUE

NextCrawl ==
    \/ StarTechCatalogPage
    \/ SkyLandCatalogPage
    \/ UltraTechCatalogPage
    \/ RyansCatalogPage
    \/ BinaryCatalogPage
    \/ CloudscraperMissing

\* ------------------------------------------- the run of one category / term
\* The shops of a run: the first NumShops of the scrapers list.
OrchShops == SubSeq(Scrapers, 1, NumShops)

OrchShopSet == {OrchShops[i] : i \in 1..NumShops}

\* The keys of the dict run_scrapers returns, in its order.
ReturnedShops == <<"StarTech", "Ryans", "SkyLand", "PcHouse", "UltraTech", "Binary", "PotakaIT">>

\* A result of more products than one batch holds.
LongResult == <<Item(LinkA, 2500, TRUE), Item(LinkC, 2500, TRUE), Item(LinkD, 1999, TRUE)>>

\* The mutant of FailedResult: a failed scraper still hands over a product.
FailedResultStale == <<Item(LinkA, 2500, TRUE)>>

\* What a scraper returns after it caught an exception: {"products": [], ...}
FailedResult == <<>>

\* The product lists a scraper returns when nothing went wrong.
ScraperResults == {<<>>, LongResult}

\* total_created, total_updated of a run
Totals(created, updated) == [created |-> created, updated |-> updated]

\* What a run reports at its end: its counts ("Catalog populated: ...",
\* "Done! Created: ..., Updated: ...", {"status": "success", ...}) or the error
\* dict of scrape_all_shops, which carries no counts.
Report(status, created, updated) ==
    [status |-> status, created |-> created, updated |-> updated]

NoReport == Report("none", 0, 0)

\* A batch (of shop, starting at index start) whose write raised, and the
\* number of times its write was tried.
Skipped(shop, start, attempts) == [shop |-> shop, start |-> start, attempts |-> attempts]

Future(state, prods, failed) == [state |-> state, products |-> prods, failed |-> failed]

Sentinel == [shop |-> "None", products |-> <<>>]

QueueItem(shop, prods) == [shop |-> shop, products |-> prods]

Worker(pc, item, attempt) == [pc |-> pc, item |-> item, attempt |-> attempt]

\* ---- the scraper threads
\* A scraper call returns its products.
ScraperReturns ==
    \E s \in OrchShopSet, prods \in ScraperResults :
        /\ futures[s].state = "running"
        /\ futures' = [futures EXCEPT ![s] = Future("done", prods, FALSE)]
        /\ completed' = Append(completed, s)
        /\ UNCHANGED <<command, main, data_queue, unfinished_tasks, worker, enqueued,
                       gave_up, totals, report, skipped, dbVars, crawlVars, cacheVars, session, norm, update, pool>>

\* A scraper call fails: every scraper catches Exception around its whole body
\* and returns an empty product list, so the future holds a result, not an
\* exception.
ScraperFails ==
    \E s \in OrchShopSet :
        /\ futures[s].state = "running"
        /\ futures' = [futures EXCEPT ![s] = Future("done", FailedResult, TRUE)]
        /\ completed' = Append(completed, s)
        /\ UNCHANGED <<command, main, data_queue, unfinished_tasks, worker, enqueued,
                       gave_up, totals, report, skipped, dbVars, crawlVars, cacheVars, session, norm, update, pool>>

\* ---- populate_catalog: run_all_scrapers_streaming and handle
\* for future in futures: result = future.result(); queue.put((shop_name, result))
\* The futures are taken in submission order; result() blocks until that one is
\* done.  After the last one the executor is left and handle calls join().
QueueResult ==
    /\ command = "populate_catalog" /\ main.pc = "results"
    /\ LET s == OrchShops[main.cursor]
       IN  /\ futures[s].state = "done"
           /\ data_queue' = Append(data_queue, QueueItem(s, futures[s].products))
           /\ unfinished_tasks' = unfinished_tasks + 1
           /\ enqueued' = Append(enqueued, s)
    /\ main' = IF main.cursor = NumShops THEN [pc |-> "join", cursor |-> main.cursor]
               ELSE [main EXCEPT !.cursor = @ + 1]
    /\ UNCHANGED <<command, futures, completed, worker, gave_up, totals, report, skipped,
                   dbVars, crawlVars, cacheVars, session, norm, update, pool>>

\* data_queue.join(); data_queue.put(None)
QueueJoin ==
    /\ command = "populate_catalog" /\ main.pc = "join"
    /\ unfinished_tasks = 0
    /\ data_queue' = Append(data_queue, Sentinel)
    /\ unfinished_tasks' = unfinished_tasks + 1
    /\ main' = [main EXCEPT !.pc = "stop"]
    /\ UNCHANGED <<command, futures, completed, worker, enqueued, gave_up, totals, report,
                   skipped, dbVars, crawlVars, cacheVars, session, norm, update, pool>>

\* save_thread.join(), then the line "Catalog populated: ... created, ... updated"
ThreadJoin ==
    /\ command = "populate_catalog" /\ main.pc = "stop"
    /\ worker.pc = "stopped"
    /\ main' = [main EXCEPT !.pc = "done"]
    /\ report' = Report("counts", totals.created, totals.updated)
    /\ UNCHANGED <<command, futures, completed, data_queue, unfinished_tasks, worker,
                   enqueued, gave_up, totals, skipped, dbVars, crawlVars, cacheVars, session, norm, update, pool>>

\* ---- save_worker
\* item = data_queue.get(); if item is None: break
WorkerGet ==
    /\ worker.pc = "get" /\ data_queue # <<>>
    /\ data_queue' = Tail(data_queue)
    /\ worker' = IF Head(data_queue) = Sentinel THEN Worker("stopped", Sentinel, 0)
                 ELSE Worker("save", Head(data_queue), 0)
    /\ UNCHANGED <<command, futures, completed, main, unfinished_tasks, enqueued,
                   gave_up, totals, report, skipped, dbVars, crawlVars, cacheVars, session, norm, update, pool>>

\* max_retries of save_worker
worker_max_retries == 3

\* An attempt of save_shop_products returns: break, then task_done().  The
\* write of the batches in failed raised inside save_shop_products, which
\* caught it, so the attempt counts as a success.
WorkerSaves ==
    /\ worker.pc = "save"
    /\ \E failed \in SUBSET BatchStarts(Len(worker.item.products)) :
        LET db == SaveShopBatches(CurrentDb, worker.item.shop, worker.item.products, 1, failed)
        IN  /\ products' = db.products /\ history' = db.history
            /\ totals' = Totals(totals.created + db.created, totals.updated + db.updated)
            /\ skipped' = skipped \cup {Skipped(worker.item.shop, i, 1) : i \in failed}
    /\ unfinished_tasks' = unfinished_tasks - 1
    /\ worker' = Worker("get", Sentinel, 0)
    /\ UNCHANGED <<command, futures, completed, main, data_queue, enqueued, gave_up,
                   report, last, crawlVars, cacheVars, session, norm, update, pool>>

\* The mutant of WorkerSaveFails: an item is given up without task_done().
WorkerSaveFailsUndone ==
    /\ worker.pc = "save"
    /\ IF worker.attempt < worker_max_retries - 1
       THEN /\ worker' = [worker EXCEPT !.attempt = @ + 1]
            /\ UNCHANGED gave_up
       ELSE /\ worker' = Worker("get", Sentinel, 0)
            /\ gave_up' = gave_up \cup {worker.item.shop}
    /\ UNCHANGED <<command, futures, completed, main, data_queue, unfinished_tasks,
                   enqueued, totals, report, skipped, dbVars, crawlVars, cacheVars,
                   session, norm, update, pool>>

\* An attempt raises (outside the batches' own try): the next attempt follows,
\* after the last one the item is given up and task_done() is called.
WorkerSaveFails ==
    /\ worker.pc = "save"
    /\ IF worker.attempt < worker_max_retries - 1
       THEN /\ worker' = [worker EXCEPT !.attempt = @ + 1]
            /\ UNCHANGED <<unfinished_tasks, gave_up>>
       ELSE /\ worker' = Worker("get", Sentinel, 0)
            /\ unfinished_tasks' = unfinished_tasks - 1
            /\ gave_up' = gave_up \cup {worker.item.shop}
    /\ UNCHANGED <<command, futures, completed, main, data_queue, enqueued, totals,
                   report, skipped, dbVars, crawlVars, cacheVars, session, norm, update, pool>>

\* ---- populate_products: run_scrapers, then save_products
\* The results of the shops, keyed as run_scrapers returns them.
GatheredData == [s \in OrchShopSet |-> futures[s].products]

GatheredShops == LET Run(s) == s \in OrchShopSet IN SelectSeq(ReturnedShops, Run)

\* save_products of populate_products or save_scraped_products of tasks, both
\* @transaction.atomic over all the shops
SaveGathered(db) ==
    IF command = "populate_products"
    THEN SaveProducts(db, GatheredShops, GatheredData, 1)
    ELSE SaveScrapedProducts(db, GatheredShops, GatheredData, 1)

\* asyncio.gather returns when every scraper has; the save then writes all the
\* shops in one transaction and the run reports its counts.
GatherAndSave ==
    /\ command \in {"populate_products", "scrape_all_shops"} /\ main.pc = "results"
    /\ \A s \in OrchShopSet : futures[s].state = "done"
    /\ LET db == SaveGathered(CurrentDb)
       IN  /\ products' = db.products /\ history' = db.history
           /\ totals' = Totals(db.created, db.updated)
           /\ report' = Report("counts", db.created, db.updated)
    /\ main' = [main EXCEPT !.pc = "done"]
    /\ UNCHANGED <<command, futures, completed, data_queue, unfinished_tasks, worker,
                   enqueued, gave_up, skipped, last, crawlVars, cacheVars, session, norm, update, pool>>

\* A write of the save raises while the k-th shop is written: the transaction
\* of the whole call is rolled back.  handle of populate_products lets the
\* exception through, so the command ends without its summary line;
\* scrape_all_shops catches it and returns {"status": "error", "message": ...}.
GatherAndSaveFails ==
    /\ command \in {"populate_products", "scrape_all_shops"} /\ main.pc = "results"
    /\ \A s \in OrchShopSet : futures[s].state = "done"
    /\ \E k \in 1..Len(GatheredShops) :
        /\ futures[GatheredShops[k]].products # <<>>
        /\ skipped' = skipped \cup {Skipped(GatheredShops[k], 1, 1)}
    /\ IF command = "populate_products"
       THEN main' = [main EXCEPT !.pc = "crashed"] /\ UNCHANGED report
       ELSE main' = [main EXCEPT !.pc = "done"] /\ report' = Report("error", 0, 0)
    /\ UNCHANGED <<command, futures, completed, data_queue, unfinished_tasks, worker,
                   enqueued, gave_up, totals, dbVars, crawlVars, cacheVars, session, norm, update, pool>>

InitOrch ==
    /\ command \in {"populate_catalog", "populate_products", "scrape_all_shops"}
    /\ futures = [s \in OrchShopSet |-> Future("running", <<>>, FALSE)]
    /\ completed = <<>>
    /\ main = [pc |-> "results", cursor |-> 1]
    /\ data_queue = <<>>
    /\ unfinished_tasks = 0
    /\ worker = IF command = "populate_catalog" THEN Worker("get", Sentinel, 0)
                ELSE Worker("none", Sentinel, 0)
    /\ enqueued = <<>>
    /\ gave_up = {}
    /\ totals = Totals(0, 0)
    /\ report = NoReport
    /\ skipped = {}

IdleOrch ==
    /\ command = "none"
    /\ futures = [s \in OrchShopSet |-> Future("none", <<>>, FALSE)]
    /\ completed = <<>>
    /\ main = [pc |-> "none", cursor |-> 1]
    /\ data_queue = <<>>
    /\ unfinished_tasks = 0
    /\ worker = Worker("none", Sentinel, 0)
    /\ enqueued = <<>>
    /\ gave_up = {}
    /\ totals = Totals(0, 0)
    /\ report = NoReport
    /\ skipped = {}

NextOrch ==
    \/ ScraperReturns
    \/ ScraperFails
    \/ QueueResult
    \/ QueueJoin
    \/ ThreadJoin
    \/ WorkerGet
    \/ WorkerSaves
    \/ WorkerSaveFails
    \/ GatherAndSave
    \/ GatherAndSaveFails

\* ------------------------------------------------- the comparison cache
\* SimpleCache of cache_manager.py behind price_comparison of views.py.  A
\* query is a sequence of characters.
MaxClock == 450

TickLen == 150

NumRequests == 2

\* default_ttl, and the ttl=300 price_comparison passes to set
default_ttl == 300

Requests == 1..NumRequests

LowerChar(c) ==
    CASE c = "A" -> "a"
      [] c = "B" -> "b"
      [] OTHER -> c

\* str.lower()
str_lower(q) == [i \in 1..Len(q) |-> LowerChar(q[i])]

IsSpace(c) == c = " "

RECURSIVE str_strip(_)
\* str.strip(): the whitespace at both ends is dropped, none inside
str_strip(q) ==
    IF q = <<>> THEN q
    ELSE IF IsSpace(Head(q)) THEN str_strip(Tail(q))
    ELSE IF IsSpace(q[Len(q)]) THEN str_strip(SubSeq(q, 1, Len(q) - 1))
    ELSE q

\* hashlib.md5(...).hexdigest(): a digest, taken to be free of collisions
md5(q) == <<"md5", q>>

\* SimpleCache._generate_key
generate_key(product) == md5(str_strip(str_lower(product)))

\* The queries of the requests: "a b", " A b " and "a  b".
Queries ==
    {<<"a", " ", "b">>, <<" ", "A", " ", "b", " ">>, <<"a", " ", " ", "b">>}

Keys == {generate_key(q) : q \in Queries}

\* all_shops, of which the model follows the first NumAdapters, and the shops
\* among them that the browser group (run_dynamic) scrapes
all_shops == <<"StarTech", "Ryans", "SkyLand", "PcHouse", "UltraTech", "Binary", "PotakaIT">>

NumAdapters == 1

Adapters == {all_shops[i] : i \in 1..NumAdapters}

DynamicShops == {"Ryans", "Binary"}

\* shops_with_results: of all_shops, in their order, the shops whose scraper
\* returned products (a scraper that caught an exception or a timeout returns
\* none)
ShopsWithResults(returned) ==
    LET Has(shop) == shop \in returned IN SelectSeq(all_shops, Has)

ScrapeResults == {ShopsWithResults(S) : S \in SUBSET Adapters}

\* A value that is None or a list.
None == [is_none |-> TRUE, data |-> <<>>]

Some(data) == [is_none |-> FALSE, data |-> data]

\* The truth value Python gives it: None and the empty list are false.
Truthy(v) == ~v.is_none /\ v.data # <<>>

Entry(data, expires_at) == [present |-> TRUE, data |-> data, expires_at |-> expires_at]

NoEntry == [present |-> FALSE, data |-> <<>>, expires_at |-> 0]

\* The mutant of Expired: no entry ever counts as expired.
ExpiredNever(entry, current_time) == FALSE

\* if current_time > entry['expires_at']
Expired(entry, current_time) == entry.present /\ current_time > entry.expires_at

\* SimpleCache.set
CacheSet(c, product, data, ttl, current_time) ==
    [c EXCEPT ![generate_key(product)] = Entry(data, current_time + ttl)]

\* The keys the dict holds.
CacheKeys(c) == {k \in DOMAIN c : c[k].present}

\* A request: where it is, its query, whether its get found an entry that had
\* not expired and the data of that entry, whether its get found an entry that
\* had expired, whether it called the scrapers, what they returned and what it
\* responded; of its clear_expired the size of the dict when the iteration
\* began and the expired_keys still to delete; the exception that ended it;
\* the shops whose scraper returned products.
ComparisonRequest(pc, product, found, found_data, stale, scraped, result, response) ==
    [pc |-> pc, product |-> product, found |-> found, found_data |-> found_data,
     stale |-> stale, scraped |-> scraped, result |-> result, response |-> response,
     size |-> 0, expired_keys |-> {}, error |-> "none", succeeded |-> {}]

NoRequest == ComparisonRequest("idle", <<>>, FALSE, <<>>, FALSE, FALSE, <<>>, <<>>)

\* An exception leaves the view: the request ends with a server error.
Raise(req, error) == [req EXCEPT !.pc = "failed", !.error = error]

\* get has returned value: if cached_result: return Response(cached_result)
AfterGet(req, value) ==
    [req EXCEPT !.found = ~value.is_none,
                !.found_data = value.data,
                !.response = value.data,
                !.pc = IF Truthy(value) THEN "done" ELSE "clear"]

\* product = request.GET.get('product') of a new request; the model follows
\* NumRequests requests
RequestArrives ==
    \E r \in Requests, product \in Queries :
        /\ request[r].pc = "idle"
        /\ request' = [request EXCEPT ![r] = [NoRequest EXCEPT !.pc = "get", !.product = product]]
        /\ UNCHANGED <<cache, clock, dbVars, crawlVars, orchVars, session, norm, update, pool>>

\* SimpleCache.get: if key not in self.cache: return None
GetContains ==
    \E r \in Requests :
        /\ request[r].pc = "get"
        /\ request' = [request EXCEPT ![r] =
               IF cache[generate_key(@.product)].present
               THEN [@ EXCEPT !.pc = "get_entry"]
               ELSE AfterGet(@, None)]
        /\ UNCHANGED <<cache, clock, dbVars, crawlVars, orchVars, session, norm, update, pool>>

\* SimpleCache.get: entry = self.cache[key], which raises KeyError when another
\* thread has removed the key since the test; then the check of the expiry
\* time, after which the entry's data is returned or the entry is deleted.
GetEntry ==
    \E r \in Requests :
        /\ request[r].pc = "get_entry"
        /\ LET entry == cache[generate_key(request[r].product)]
           IN  request' = [request EXCEPT ![r] =
                   IF ~entry.present THEN Raise(@, "KeyError")
                   ELSE IF Expired(entry, clock)
                        THEN [@ EXCEPT !.stale = TRUE, !.pc = "get_del"]
                        ELSE AfterGet(@, Some(entry.data))]
        /\ UNCHANGED <<cache, clock, dbVars, crawlVars, orchVars, session, norm, update, pool>>

\* SimpleCache.get: del self.cache[key]; return None
GetDelete ==
    \E r \in Requests :
        /\ request[r].pc = "get_del"
        /\ LET key == generate_key(request[r].product)
           IN  IF cache[key].present
               THEN /\ cache' = [cache EXCEPT ![key] = NoEntry]
                    /\ request' = [request EXCEPT ![r] = AfterGet(@, None)]
               ELSE /\ request' = [request EXCEPT ![r] = Raise(@, "KeyError")]
                    /\ UNCHANGED cache
        /\ UNCHANGED <<clock, dbVars, crawlVars, orchVars, session, norm, update, pool>>

\* SimpleCache.clear_expired: the iteration over self.cache.items() begins
ClearScan ==
    \E r \in Requests :
        /\ request[r].pc = "clear"
        /\ request' = [request EXCEPT ![r] =
               [@ EXCEPT !.size = Cardinality(CacheKeys(cache)), !.pc = "clear_iter"]]
        /\ UNCHANGED <<cache, clock, dbVars, crawlVars, orchVars, session, norm, update, pool>>

\* SimpleCache.clear_expired: the iteration ends with expired_keys, or with
\* "RuntimeError: dictionary changed size during iteration" when another
\* thread added or removed a key meanwhile.
ClearCollect ==
    \E r \in Requests :
        /\ request[r].pc = "clear_iter"
        /\ request' = [request EXCEPT ![r] =
               IF Cardinality(CacheKeys(cache)) # @.size THEN Raise(@, "RuntimeError")
               ELSE [@ EXCEPT !.expired_keys = {k \in CacheKeys(cache) : Expired(cache[k], clock)},
                              !.pc = "clear_del"]]
        /\ UNCHANGED <<cache, clock, dbVars, crawlVars, orchVars, session, norm, update, pool>>

\* SimpleCache.clear_expired: for key in expired_keys: del self.cache[key], one
\* key at a time; return len(expired_keys)
ClearDelete ==
    \E r \in Requests :
        /\ request[r].pc = "clear_del"
        /\ IF request[r].expired_keys = {}
           THEN /\ request' = [request EXCEPT ![r].pc = "scrape"]
                /\ UNCHANGED cache
           ELSE \E key \in request[r].expired_keys :
                   IF cache[key].present
                   THEN /\ cache' = [cache EXCEPT ![key] = NoEntry]
                        /\ request' = [request EXCEPT ![r].expired_keys = @ \ {key}]
                   ELSE /\ request' = [request EXCEPT ![r] = Raise(@, "KeyError")]
                        /\ UNCHANGED cache
        /\ UNCHANGED <<clock, dbVars, crawlVars, orchVars, session, norm, update, pool>>

\* asyncio.run(gather_all_scrapers(product)), then the shops with products:
\* every scraper returns, with products (the shops in returned) or, having
\* caught its exception or timeout, without.
FanOut ==
    \E r \in Requests, returned \in SUBSET Adapters :
        /\ request[r].pc = "scrape"
        /\ request' = [request EXCEPT ![r] =
               [@ EXCEPT !.scraped = TRUE, !.succeeded = returned,
                         !.result = ShopsWithResults(returned), !.pc = "set"]]
        /\ UNCHANGED <<cache, clock, dbVars, crawlVars, orchVars, session, norm, update, pool>>

\* The browser group fails outside the scrapers' own try (async_playwright(),
\* chromium.launch, new_context, or page.close() in the finally of
\* scrape_ryans): run_dynamic raises, asyncio.gather and asyncio.run pass the
\* exception on and the view ends with it, whatever the static scrapers (the
\* shops in returned) brought.
FanOutBrowserFails ==
    \E r \in Requests, returned \in SUBSET (Adapters \ DynamicShops) :
        /\ request[r].pc = "scrape"
        /\ request' = [request EXCEPT ![r] =
               [Raise(@, "PlaywrightError") EXCEPT !.scraped = TRUE, !.succeeded = returned]]
        /\ UNCHANGED <<cache, clock, dbVars, crawlVars, orchVars, session, norm, update, pool>>

\* price_cache.set(product, shops_with_results, ttl=300); return Response(...)
StoreAndRespond ==
    \E r \in Requests :
        /\ request[r].pc = "set"
        /\ cache' = CacheSet(cache, request[r].product, request[r].result, default_ttl, clock)
        /\ request' = [request EXCEPT ![r] = [@ EXCEPT !.response = request[r].result, !.pc = "done"]]
        /\ UNCHANGED <<clock, dbVars, crawlVars, orchVars, session, norm, update, pool>>

\* Time passes.
Tick ==
    /\ clock + TickLen <= MaxClock
    /\ clock' = clock + TickLen
    /\ UNCHANGED <<cache, request, dbVars, crawlVars, orchVars, session, norm, update, pool>>

InitCache ==
    /\ cache = [k \in Keys |-> NoEntry]
    /\ clock = 0
    /\ request = [r \in Requests |-> NoRequest]

IdleCache == InitCache

NextCache ==
    \/ RequestArrives
    \/ GetContains
    \/ GetEntry
    \/ GetDelete
    \/ ClearScan
    \/ ClearCollect
    \/ ClearDelete
    \/ FanOut
    \/ FanOutBrowserFails
    \/ StoreAndRespond
    \/ Tick

\* ------------------------------------------------------ the browser group
\* run_dynamic of price_comparison, of run_scrapers (populate_products) and of
\* run_all_scrapers (tasks): one browser, one context, scrape_ryans and
\* scrape_binary_playwright each with a page of that context.
DynamicScrapers == {"Ryans", "Binary"}

Callers == {"price_comparison", "populate_products", "scrape_all_shops"}

\* What a scraper call hands back: results["products"] filled or empty.
Returns == {"products", "empty"}

\* A scraper call: "ready", "running" (its page is open and it works on it),
\* "returned" or "raised"; its page: "none", "open" or "closed"; its result.
ScraperCall(state, page, result) == [state |-> state, page |-> page, result |-> result]

Session(pc, caller, browser, context, call) ==
    [pc |-> pc, caller |-> caller, browser |-> browser, context |-> context, call |-> call]

NoCalls == [a \in DynamicScrapers |-> ScraperCall("none", "none", "empty")]

\* The pages of the calls as browser.close(), or the end of the driver, leaves
\* them: an open page is closed with its browser.
PagesClosed(call) ==
    [a \in DynamicScrapers |->
        [call[a] EXCEPT !.page = IF @ = "open" THEN "closed" ELSE @]]

\* async with async_playwright() as p; p.chromium.launch(...); new_context(...)
BrowserStarts ==
    /\ session.pc = "start"
    /\ session' = [session EXCEPT !.pc = "gather", !.browser = "open", !.context = "open",
                                  !.call = [a \in DynamicScrapers |->
                                               ScraperCall("ready", "none", "empty")]]
    /\ UNCHANGED <<dbVars, crawlVars, orchVars, cacheVars, norm, update, pool>>

\* launch or new_context raises: the exception leaves run_dynamic through the
\* async with, which stops the driver and with it a browser already launched.
BrowserStartFails ==
    /\ session.pc = "start"
    /\ session' = [session EXCEPT !.pc = "raised", !.browser = "closed"]
    /\ UNCHANGED <<dbVars, crawlVars, orchVars, cacheVars, norm, update, pool>>

\* page = await context.new_page()
NewPage ==
    \E a \in DynamicScrapers :
        /\ session.pc = "gather" /\ session.call[a].state = "ready"
        /\ session' = [session EXCEPT !.call[a] = ScraperCall("running", "open", "empty")]
        /\ UNCHANGED <<dbVars, crawlVars, orchVars, cacheVars, norm, update, pool>>

\* new_page raises inside the try: except Exception returns the empty results
\* (in scrape_ryans page is still None, so the finally closes nothing)
NewPageFails ==
    \E a \in DynamicScrapers :
        /\ session.pc = "gather" /\ session.call[a].state = "ready"
        /\ session' = [session EXCEPT !.call[a] = ScraperCall("returned", "none", "empty")]
        /\ UNCHANGED <<dbVars, crawlVars, orchVars, cacheVars, norm, update, pool>>

\* scrape_ryans ends, by its return or by its except Exception (a timeout of
\* goto, an error): finally: if page: await page.close()
RyansReturns ==
    \E result \in Returns :
        /\ session.pc = "gather" /\ session.call["Ryans"].state = "running"
        /\ session' = [session EXCEPT !.call["Ryans"] = ScraperCall("returned", "closed", result)]
        /\ UNCHANGED <<dbVars, crawlVars, orchVars, cacheVars, norm, update, pool>>

\* page.close() in the finally of scrape_ryans raises (the page has crashed):
\* the exception leaves scrape_ryans.
RyansCloseRaises ==
    /\ session.pc = "gather" /\ session.call["Ryans"].state = "running"
    /\ session' = [session EXCEPT !.call["Ryans"] = ScraperCall("raised", "closed", "empty")]
    /\ UNCHANGED <<dbVars, crawlVars, orchVars, cacheVars, norm, update, pool>>

\* scrape_binary_playwright reaches  await page.close(); return results
BinaryReturns ==
    \E result \in Returns :
        /\ session.pc = "gather" /\ session.call["Binary"].state = "running"
        /\ session' = [session EXCEPT !.call["Binary"] = ScraperCall("returned", "closed", result)]
        /\ UNCHANGED <<dbVars, crawlVars, orchVars, cacheVars, norm, update, pool>>

\* scrape_binary_playwright catches an exception (a timeout of goto, an error
\* of evaluate or content): except Exception: return results -- no finally,
\* page.close() is not reached
BinaryFails ==
    /\ session.pc = "gather" /\ session.call["Binary"].state = "running"
    /\ session' = [session EXCEPT !.call["Binary"] = ScraperCall("returned", "open", "empty")]
    /\ UNCHANGED <<dbVars, crawlVars, orchVars, cacheVars, norm, update, pool>>

\* results = await asyncio.gather(*tasks); await browser.close(); return results
GatherReturns ==
    /\ session.pc = "gather"
    /\ \A a \in DynamicScrapers : session.call[a].state = "returned"
    /\ session' = [session EXCEPT !.pc = "done", !.browser = "closed", !.context = "closed",
                                  !.call = PagesClosed(@)]
    /\ UNCHANGED <<dbVars, crawlVars, orchVars, cacheVars, norm, update, pool>>

\* A scraper call raised: gather raises, browser.close() is skipped and the
\* exception leaves run_dynamic through the async with, which stops the
\* driver and with it the browser.
GatherRaises ==
    /\ session.pc = "gather"
    /\ \E a \in DynamicScrapers : session.call[a].state = "raised"
    /\ session' = [session EXCEPT !.pc = "raised", !.browser = "closed", !.context = "closed",
                                  !.call = PagesClosed(@)]
    /\ UNCHANGED <<dbVars, crawlVars, orchVars, cacheVars, norm, update, pool>>

InitSession ==
    \E caller \in Callers : session = Session("start", caller, "none", "none", NoCalls)

IdleSession == session = Session("none", "none", "none", "none", NoCalls)

NextSession ==
    \/ BrowserStarts
    \/ BrowserStartFails
    \/ NewPage
    \/ NewPageFails
    \/ RyansReturns
    \/ RyansCloseRaises
    \/ BinaryReturns
    \/ BinaryFails
    \/ GatherReturns
    \/ GatherRaises

\* ------------------------------------------------------ the item normalizers
\* normalize_price and normalize_product_url applied to what a card carries.
MaxParams == 2

MaxText == 4

RECURSIVE SeqsUpTo(_, _)
\* The sequences over S of length at most n.
SeqsUpTo(S, n) ==
    IF n = 0 THEN {<<>>}
    ELSE LET shorter == SeqsUpTo(S, n - 1)
         IN  shorter \cup {Append(q, x) : q \in shorter, x \in S}

\* The query parameters of the raw links: listing parameters, product
\* parameters, blank values and escaped values.
RawParams ==
    {Param(k, v) : k \in {"page", "Q", "id", "ref"}, v \in {"1", "", "a%20b"}}
        \cup {Param("%70age", "1")}

RawUrls ==
    {Url("/product/1", q, frag) : q \in SeqsUpTo(RawParams, MaxParams), frag \in {"", "top"}}
        \cup {EmptyLink}

\* The characters of a price text: a letter, and the characters of the runs
\* [\d\.,]+ that re.findall looks for.
PriceChars == {"T", ",", ".", "0", "5"}

RunChars == {",", ".", "0", "1", "2", "3", "4", "5", "6", "7", "8", "9"}

Digit(c) ==
    CASE c = "0" -> 0 [] c = "1" -> 1 [] c = "2" -> 2 [] c = "3" -> 3 [] c = "4" -> 4
      [] c = "5" -> 5 [] c = "6" -> 6 [] c = "7" -> 7 [] c = "8" -> 8 [] c = "9" -> 9

TakaText == <<"T", "K", " ", "1", "2", ",", "5", "0", "0", ".", "0", "0">>

OutOfStockText == <<"O", "u", "t", " ", "o", "f", " ", "S", "t", "o", "c", "k">>

PriceTexts == SeqsUpTo(PriceChars, MaxText) \cup {TakaText, OutOfStockText}

RECURSIVE TakeRun(_)
\* The longest prefix of text made of run characters.
TakeRun(text) ==
    IF text = <<>> \/ text[1] \notin RunChars THEN <<>>
    ELSE <<text[1]>> \o TakeRun(Tail(text))

RECURSIVE FirstMatch(_)
\* match[0] of re.findall(r"[\d\.,]+", str(text)), <<>> when match is empty
FirstMatch(text) ==
    IF text = <<>> THEN <<>>
    ELSE IF text[1] \in RunChars THEN TakeRun(text)
    ELSE FirstMatch(Tail(text))

\* The mutant of RemoveCommas: the commas stay in the text given to float.
KeepCommas(run) == run

\* match[0].replace(',', '')
RemoveCommas(run) ==
    LET NotComma(c) == c # ","
    IN  SelectSeq(run, NotComma)

RECURSIVE DigitsValue(_)
\* The number a sequence of digits writes.
DigitsValue(ds) ==
    IF ds = <<>> THEN 0
    ELSE 10 * DigitsValue(SubSeq(ds, 1, Len(ds) - 1)) + Digit(ds[Len(ds)])

RECURSIVE StripZeros(_)
\* The digits after the point without the closing zeros, which add nothing.
StripZeros(ds) ==
    IF ds # <<>> /\ ds[Len(ds)] = "0" THEN StripZeros(SubSeq(ds, 1, Len(ds) - 1)) ELSE ds

\* A float of the model: the whole part and the digits after the point.
Number(whole, fraction) == [whole |-> whole, fraction |-> fraction]

\* The two strings normalize_price returns instead of a number.
OutOfStockNoMatch == "Out of Stock"

OutOfStockNoFloat == "Out Of Stock"

\* float(num) accepts digits with at most one point and at least one digit;
\* anything else raises ValueError.
IsFloatText(num) ==
    /\ \E i \in 1..Len(num) : num[i] # "."
    /\ \A i \in 1..Len(num) : num[i] # ","
    /\ Cardinality({i \in 1..Len(num) : num[i] = "."}) <= 1

\* float(num), for a num that IsFloatText
float(num) ==
    LET point == IF \E i \in 1..Len(num) : num[i] = "."
                 THEN CHOOSE i \in 1..Len(num) : num[i] = "."
                 ELSE Len(num) + 1
    IN  Number(DigitsValue(SubSeq(num, 1, point - 1)),
               StripZeros(SubSeq(num, point + 1, Len(num))))

normalize_price(text) ==
    LET match == FirstMatch(text)
        num == RemoveCommas(match)
    IN  IF match = <<>> THEN [is_number |-> FALSE, text |-> OutOfStockNoMatch, value |-> Number(0, <<>>)]
        ELSE IF IsFloatText(num)
             THEN [is_number |-> TRUE, text |-> "", value |-> float(num)]
             ELSE [is_number |-> FALSE, text |-> OutOfStockNoFloat, value |-> Number(0, <<>>)]

Normalizing(pc, kind, url, text) ==
    [pc |-> pc, kind |-> kind, url |-> url, text |-> text,
     normalized |-> EmptyLink, again |-> EmptyLink, other |-> EmptyLink,
     other_normalized |-> EmptyLink,
     price |-> [is_number |-> FALSE, text |-> "", value |-> Number(0, <<>>)]]

\* The links that differ from url only in the listing parameters  page,
\* search, q, keyword, sort, order, limit  (their presence, value or place) or
\* in the fragment: the same product page reached from another listing.
ListingParams == {"page", "search", "q", "keyword", "sort", "order", "limit"}

WithoutListingParams(url) ==
    LET Other(p) == p.k \notin ListingParams
    IN  Url(url.path, SelectSeq(url.query, Other), "")

SameProductLinks(url) ==
    {u \in RawUrls : WithoutListingParams(u) = WithoutListingParams(url)}

\* product_url = normalize_product_url(raw_url)
NormalizeUrl ==
    /\ norm.pc = "raw" /\ norm.kind = "url"
    /\ norm' = [norm EXCEPT !.pc = "normalized", !.normalized = normalize_product_url(norm.url)]
    /\ UNCHANGED <<dbVars, crawlVars, orchVars, cacheVars, session, update, pool>>

\* A stored url is normalized again when remove_duplicates groups the rows.
NormalizeAgain ==
    /\ norm.pc = "normalized"
    /\ norm' = [norm EXCEPT !.pc = "again", !.again = normalize_product_url(norm.normalized)]
    /\ UNCHANGED <<dbVars, crawlVars, orchVars, cacheVars, session, update, pool>>

\* The same product arrives from another listing page and is normalized.
NormalizeOther ==
    /\ norm.pc = "normalized"
    /\ \E u \in SameProductLinks(norm.url) :
           norm' = [norm EXCEPT !.pc = "other", !.other = u,
                                !.other_normalized = normalize_product_url(u)]
    /\ UNCHANGED <<dbVars, crawlVars, orchVars, cacheVars, session, update, pool>>

\* "price": normalize_price(price.text.strip())
NormalizePrice ==
    /\ norm.pc = "raw" /\ norm.kind = "price"
    /\ norm' = [norm EXCEPT !.pc = "priced", !.price = normalize_price(norm.text)]
    /\ UNCHANGED <<dbVars, crawlVars, orchVars, cacheVars, session, update, pool>>

InitNorm ==
    \/ \E url \in RawUrls : norm = Normalizing("raw", "url", url, <<>>)
    \/ \E text \in PriceTexts : norm = Normalizing("raw", "price", EmptyLink, text)

IdleNorm == norm = Normalizing("none", "none", EmptyLink, <<>>)

NextNorm ==
    \/ NormalizeUrl
    \/ NormalizeAgain
    \/ NormalizeOther
    \/ NormalizePrice

\* ------------------------------------------------------------ trigger_update
\* POST /api/products/update/: the handler reads the cache key, answers, and
\* leaves the run to a background thread.
NumPosts == 2

Posts == 1..NumPosts

\* cache.set('update_in_progress', True, timeout=3600)
update_timeout == 3600

\* The clock of the update model moves in steps of UpdateTick seconds up to
\* MaxUpdateClock.
UpdateTick == 1800

MaxUpdateClock == 5400

Flag(present, expires_at) == [present |-> present, expires_at |-> expires_at]

\* cache.get('update_in_progress', False): a key past its timeout is gone
FlagValue(u) == u.flag.present /\ u.now < u.flag.expires_at

Post(pc, seen, response) == [pc |-> pc, seen |-> seen, response |-> response]

\* update_in_progress = cache.get('update_in_progress', False)
PostArrives ==
    \E r \in Posts :
        /\ update.post[r].pc = "idle"
        /\ update' = [update EXCEPT !.post[r] = Post("checked", FlagValue(update), "none")]
        /\ UNCHANGED <<dbVars, crawlVars, orchVars, cacheVars, session, norm, pool>>

\* if update_in_progress: return Response({"status": "already_running", ...})
PostRefused ==
    \E r \in Posts :
        /\ update.post[r].pc = "checked" /\ update.post[r].seen
        /\ update' = [update EXCEPT !.post[r] = Post("done", TRUE, "already_running")]
        /\ UNCHANGED <<dbVars, crawlVars, orchVars, cacheVars, session, norm, pool>>

\* thread = threading.Thread(target=run_update, daemon=True); thread.start();
\* return Response({"status": "started", ...}, status=202)
PostAccepted ==
    \E r \in Posts :
        /\ update.post[r].pc = "checked" /\ ~update.post[r].seen
        /\ update' = [update EXCEPT !.post[r] = Post("done", FALSE, "started"),
                                    !.run[r] = "started"]
        /\ UNCHANGED <<dbVars, crawlVars, orchVars, cacheVars, session, norm, pool>>

\* run_update: cache.set('update_in_progress', True, timeout=3600), then
\* call_command('populate_catalog') begins
RunSetsFlag ==
    \E r \in Posts :
        /\ update.run[r] = "started"
        /\ update' = [update EXCEPT !.run[r] = "running",
                                    !.flag = Flag(TRUE, update.now + update_timeout)]
        /\ UNCHANGED <<dbVars, crawlVars, orchVars, cacheVars, session, norm, pool>>

\* call_command returns or raises: cache.delete('update_in_progress')
RunEnds ==
    \E r \in Posts :
        /\ update.run[r] = "running"
        /\ update' = [update EXCEPT !.run[r] = "done", !.flag = Flag(FALSE, 0)]
        /\ UNCHANGED <<dbVars, crawlVars, orchVars, cacheVars, session, norm, pool>>

\* Time passes.
UpdateClock ==
    /\ update.now + UpdateTick <= MaxUpdateClock
    /\ update' = [update EXCEPT !.now = @ + UpdateTick]
    /\ UNCHANGED <<dbVars, crawlVars, orchVars, cacheVars, session, norm, pool>>

InitUpdate ==
    update = [now |-> 0, flag |-> Flag(FALSE, 0),
              post |-> [r \in Posts |-> Post("idle", FALSE, "none")],
              run |-> [r \in Posts |-> "none"]]

IdleUpdate ==
    update = [now |-> 0, flag |-> Flag(FALSE, 0),
              post |-> [r \in Posts |-> Post("none", FALSE, "none")],
              run |-> [r \in Posts |-> "none"]]

NextUpdate ==
    \/ PostArrives
    \/ PostRefused
    \/ PostAccepted
    \/ RunSetsFlag
    \/ RunEnds
    \/ UpdateClock

\* ------------------------------------------------------------- the BrowserPool
\* browser_pool = BrowserPool(pool_size=2)
pool_size == 2

NumCallers == 2

PoolCallers == 1..NumCallers

\* The contexts are numbered in the order of their creation; the model stops
\* creating contexts after MaxCreated.
MaxCreated == 6

Range(q) == {q[i] : i \in 1..Len(q)}

\* for i in range(n): context = await self.browser.new_context(...);
\* self.contexts.append(context); await self.available_contexts.put(context)
WithNewContexts(p, n) ==
    LET new == [i \in 1..n |-> p.created + i]
    IN  [p EXCEPT !.contexts = @ \o new, !.available = @ \o new, !.created = @ + n]

\* initialize() that succeeds
Initialized(p) == [WithNewContexts(p, pool_size) EXCEPT !.initialized = TRUE]

\* cleanup(): every context of self.contexts is closed, then
\* self._initialized = False; self.contexts.clear()
Cleaned(p) ==
    [p EXCEPT !.closed = @ \cup Range(p.contexts), !.initialized = FALSE,
              !.contexts = <<>>]

\* initialize(), by itself or from get_context
PoolInitialize ==
    /\ ~pool.initialized
    /\ pool.created + pool_size <= MaxCreated
    /\ pool' = Initialized(pool)
    /\ UNCHANGED <<dbVars, crawlVars, orchVars, cacheVars, session, norm, update>>

\* initialize() where the launch or the new_context after n contexts raises:
\* except Exception: await self.cleanup(); raise
PoolInitializeFails ==
    /\ ~pool.initialized
    /\ \E n \in 0..(pool_size - 1) :
           /\ pool.created + n <= MaxCreated
           /\ pool' = Cleaned(WithNewContexts(pool, n))
    /\ UNCHANGED <<dbVars, crawlVars, orchVars, cacheVars, session, norm, update>>

\* get_context(): if not self._initialized: await self.initialize();
\* return await self.available_contexts.get()  -- which waits while the queue
\* is empty
GetContext ==
    \E c \in PoolCallers :
        /\ pool.held[c] = 0
        /\ pool.initialized \/ pool.created + pool_size <= MaxCreated
        /\ LET p == IF pool.initialized THEN pool ELSE Initialized(pool)
           IN  /\ p.available # <<>>
               /\ pool' = [p EXCEPT !.available = Tail(@), !.held[c] = Head(p.available)]
        /\ UNCHANGED <<dbVars, crawlVars, orchVars, cacheVars, session, norm, update>>

\* return_context(context): the pages are closed and the context is put back
ReturnContext ==
    \E c \in PoolCallers :
        /\ pool.held[c] # 0
        /\ pool' = [pool EXCEPT !.available = Append(@, pool.held[c]), !.held[c] = 0]
        /\ UNCHANGED <<dbVars, crawlVars, orchVars, cacheVars, session, norm, update>>

\* return_context(context) where page.close() raises: except Exception logs a
\* warning; available_contexts.put is not reached
ReturnContextFails ==
    \E c \in PoolCallers :
        /\ pool.held[c] # 0
        /\ pool' = [pool EXCEPT !.held[c] = 0]
        /\ UNCHANGED <<dbVars, crawlVars, orchVars, cacheVars, session, norm, update>>

\* cleanup()
PoolCleanup ==
    /\ pool.initialized
    /\ pool' = Cleaned(pool)
    /\ UNCHANGED <<dbVars, crawlVars, orchVars, cacheVars, session, norm, update>>

\* BrowserPool.__init__
InitPool ==
    pool = [initialized |-> FALSE, contexts |-> <<>>, available |-> <<>>,
            closed |-> {}, created |-> 0, held |-> [c \in PoolCallers |-> 0]]

IdlePool == InitPool

NextPool ==
    \/ PoolInitialize
    \/ PoolInitializeFails
    \/ GetContext
    \/ ReturnContext
    \/ ReturnContextFails
    \/ PoolCleanup

\* ---------------------------------------------------------- specifications
vars ==
    <<products, history, last, crawl, fetched, CLOUDSCRAPER_AVAILABLE,
      command, futures, completed, main, data_queue, unfinished_tasks, worker,
      enqueued, gave_up, totals, report, skipped, cache, clock, request, session, norm, update, pool>>

Init == InitDb /\ IdleCrawl /\ IdleOrch /\ IdleCache /\ IdleSession /\ IdleNorm /\ IdleUpdate /\ IdlePool

Next == NextDb(FALSE)

\* The ingestion paths over one database.
Spec == Init /\ [][Next]_vars

NextTraced == NextDb(TRUE)

\* The same, remembering the last save in  last.
SpecTraced == Init /\ [][NextTraced]_vars

InitCrawler == InitDb /\ InitCrawl /\ IdleOrch /\ IdleCache /\ IdleSession /\ IdleNorm /\ IdleUpdate /\ IdlePool

NextCrawler == NextCrawl

\* One catalog crawl of one shop against any sequence of responses.
SpecCrawl == InitCrawler /\ [][NextCrawler]_vars

InitRun == InitDb /\ IdleCrawl /\ InitOrch /\ IdleCache /\ IdleSession /\ IdleNorm /\ IdleUpdate /\ IdlePool

NextRun == NextOrch

\* One run of populate_catalog for a category, or of populate_products for a
\* search term, over an empty catalog.
SpecOrch == InitRun /\ [][NextRun]_vars

\* The same run with the scheduling of its threads: the command's thread and
\* the save worker take their steps when they can.  Nothing bounds the time a
\* scraper call takes (future.result() is called without a timeout and the
\* requests' timeouts bound a single read, not the crawl), so its return is
\* not a fair step.
RunFairness ==
    /\ WF_vars(QueueResult)
    /\ WF_vars(QueueJoin)
    /\ WF_vars(ThreadJoin)
    /\ WF_vars(WorkerGet)
    /\ WF_vars(WorkerSaves \/ WorkerSaveFails)
    /\ WF_vars(GatherAndSave)

SpecOrchFair == InitRun /\ [][NextRun]_vars /\ RunFairness

InitComparison == InitDb /\ IdleCrawl /\ IdleOrch /\ InitCache /\ IdleSession /\ IdleNorm /\ IdleUpdate /\ IdlePool

NextComparison == NextCache

\* Concurrent price_comparison requests over the one price_cache.
SpecCache == InitComparison /\ [][NextComparison]_vars

InitBrowser == InitDb /\ IdleCrawl /\ IdleOrch /\ IdleCache /\ InitSession /\ IdleNorm /\ IdleUpdate /\ IdlePool

NextBrowser == NextSession

\* One run of the browser group.
SpecBrowser == InitBrowser /\ [][NextBrowser]_vars

InitNormalizer == InitDb /\ IdleCrawl /\ IdleOrch /\ IdleCache /\ IdleSession /\ InitNorm /\ IdleUpdate /\ IdlePool

NextNormalizer == NextNorm

InitTrigger ==
    /\ InitDb /\ IdleCrawl /\ IdleOrch /\ IdleCache /\ IdleSession /\ IdleNorm
    /\ InitUpdate /\ IdlePool

NextTrigger == NextUpdate

\* POST requests to trigger_update and the runs they start.
SpecTrigger == InitTrigger /\ [][NextTrigger]_vars

InitBrowserPool ==
    /\ InitDb /\ IdleCrawl /\ IdleOrch /\ IdleCache /\ IdleSession /\ IdleNorm
    /\ IdleUpdate /\ InitPool

NextBrowserPool == NextPool

\* Callers of the one BrowserPool.
SpecPool == InitBrowserPool /\ [][NextBrowserPool]_vars

\* The normalizers applied to one raw link or one raw price text.
SpecNormalizer == InitNormalizer /\ [][NextNormalizer]_vars

\* ------------------------------------------------------------ claims C1..C5
\* The rows of a shop stored under a URL.
Entries(prods, shop, url) == Matching(prods, shop, url)

\* The price a save stores for an item: 0 when the item has no valid price.
StoredPrice(it) == IF IsInvalidPrice(it.price) THEN 0 ELSE it.price

\* The history rows of product pk, oldest first.
HistoryOf(hist, pk) ==
    LET Mine(r) == r.product = pk IN SelectSeq(hist, Mine)

\* This step saved exactly the one item the previous step saved, for the same
\* shop, and the item has a valid price and carries its normalized URL.
SameItemAgain ==
    /\ Len(last.items) = 1
    /\ last'.items = last.items
    /\ last'.shop = last.shop
    /\ last'.path # "none"
    /\ last.path # "none"
    /\ ~IsInvalidPrice(last.items[1].price)
    /\ ~IsPlaceholderLink(last.items[1].link)
    /\ normalize_product_url(last.items[1].link) = last.items[1].link

\* C1: ingesting the same normalized item (same shop, same normalized URL) twice
\* in succession with an unchanged price leaves exactly one catalog entry for
\* that (shop, URL) and adds no price-history row on the second ingestion.
C1_SameItemTwice ==
    [][SameItemAgain =>
          /\ history' = history
          /\ Cardinality(Entries(products', last.shop, last.items[1].link)) = 1]_vars

\* This step saved a single item that has a valid price and carries its
\* normalized URL, and row pk is the shop's entry stored under that URL.
SavedOver(pk) ==
    /\ Len(last'.items) = 1
    /\ last'.path # "none"
    /\ ~IsInvalidPrice(last'.items[1].price)
    /\ ~IsPlaceholderLink(last'.items[1].link)
    /\ normalize_product_url(last'.items[1].link) = last'.items[1].link
    /\ pk \in Entries(products, last'.shop, last'.items[1].link)

\* C2: ingesting an item whose (shop, normalized URL) already exists with a price
\* different from the stored one adds exactly one price-history row for that
\* entry, and the entry's current price is the ingested price afterwards.
C2_ChangedPriceAddsOneRow ==
    [][\A pk \in 1..Len(products) :
          (SavedOver(pk) /\ products[pk].price # last'.items[1].price /\ vars' # vars) =>
              /\ Len(HistoryOf(history', pk)) = Len(HistoryOf(history, pk)) + 1
              /\ products'[pk].price = last'.items[1].price]_vars

\* C3: a price-history row is appended only when price or stock status differs
\* from the entry's most recent row, so no entry has two consecutive history
\* rows with the same price and the same stock status.
C3_NoRepeatedHistoryRow ==
    \A pk \in 1..Len(products) :
        LET h == HistoryOf(history, pk)
        IN  \A i \in 1..(Len(h) - 1) :
                h[i].price # h[i + 1].price \/ h[i].stock # h[i + 1].stock

\* C4: no two catalog entries of the same shop have the same normalized URL.
C4_UniqueNormalizedUrl ==
    \A i, j \in 1..Len(products) :
        (i # j /\ products[i].shop = products[j].shop) =>
            normalize_product_url(products[i].url) # normalize_product_url(products[j].url)

\* C5: in every catalog entry is_available is false whenever current_price is
\* zero or stock_status is out_of_stock.
C5_UnavailableWhenNoPriceOrStock ==
    \A i \in 1..Len(products) :
        (products[i].price = 0 \/ products[i].stock = "out_of_stock") =>
            ~products[i].avail

\* C5's case: the bulk path alone has run (it writes no history row) and has
\* stored an entry whose item had no price: it is out of stock and unavailable.
C5_Witness ==
    /\ history = <<>>
    /\ last.path = "none"
    /\ \E i \in 1..Len(products) :
          /\ products[i].price = 0 /\ products[i].stock = "out_of_stock"
          /\ ~products[i].avail

\* ----------------------------------------------------------- claims C8..C10
\* The page numbers requested so far, in order.
RequestedPages == [i \in 1..Len(fetched) |-> fetched[i].page]

\* The page numbers 1..n in order.
Pages(n) == [i \in 1..n |-> i]

\* Every request so far was answered at once with a page of this kind.
EveryRequest(kind) ==
    \A i \in 1..Len(fetched) : fetched[i].outcome = kind /\ fetched[i].attempts = 1

\* The crawl has returned and its page loop ran.
CrawlEnded == crawl.pc = "done" /\ crawl.stop # "unavailable"

\* The last two requests both found a page without items.
LastTwoEmpty ==
    /\ Len(fetched) >= 2
    /\ fetched[Len(fetched)].outcome = "empty"
    /\ fetched[Len(fetched) - 1].outcome = "empty"

\* C8 as stated: a crawl whose every page has zero items stops after requesting
\* exactly pages 1 and 2, whatever the page cap.
C8_AlwaysEmptyTwoPagesAnyCap ==
    (CrawlEnded /\ EveryRequest("empty")) => RequestedPages = <<1, 2>>

\* C8 amended: a crawl whose every page has zero items stops after requesting
\* pages 1 and 2 when the page cap is at least 2, and after page 1 alone when
\* the cap is 1; it never requests a third page.
C8_AlwaysEmptyTwoPagesWithinCap ==
    (CrawlEnded /\ EveryRequest("empty")) =>
        RequestedPages = Pages(Min(2, crawl.max_pages))

\* C8's case: a cap above 2, two empty pages, and the crawl has stopped.
C8_Witness ==
    /\ CrawlEnded /\ crawl.max_pages > 2
    /\ EveryRequest("empty") /\ Len(fetched) = 2
    /\ crawl.stop = "exhausted"

\* C9: a crawl whose every page has at least one item requests pages 1 to
\* max_pages in order, each once, and stops there: it has not stopped before
\* the cap and requests no page beyond it.
C9_AlwaysItemsStopsAtCap ==
    EveryRequest("items") =>
        /\ Len(fetched) <= crawl.max_pages
        /\ RequestedPages = Pages(Len(fetched))
        /\ CrawlEnded => Len(fetched) = crawl.max_pages
        /\ (Len(fetched) = crawl.max_pages /\ fetched # <<>>) => crawl.stop = "cap"

\* C9's case: the largest cap, every page had items, the crawl stopped at the cap.
C9_Witness ==
    /\ CrawlEnded /\ crawl.max_pages = MaxPagesCap
    /\ EveryRequest("items") /\ Len(fetched) = MaxPagesCap
    /\ crawl.returned = MaxPagesCap * PerPage

\* The outcomes of the requests so far, in order.
Outcomes == [i \in 1..Len(fetched) |-> fetched[i].outcome]

\* Every request so far was answered at once by a page with items or without.
EveryPageServed ==
    \A i \in 1..Len(fetched) :
        fetched[i].outcome \in {"items", "empty"} /\ fetched[i].attempts = 1

\* C10: while every page is served, the crawl is exhausted exactly when the last
\* two requested pages had zero items (a page with items resets the count); a
\* shop serving PerPage, PerPage, 0, 0 items on pages 1 to 4 has pages 1 to 4
\* requested, the crawl stops there and returns 2 * PerPage items.
C10_ExhaustedOnTwoEmptyPages ==
    EveryPageServed =>
        /\ crawl.stop = "exhausted" <=> LastTwoEmpty
        /\ Outcomes = <<"items", "items", "empty", "empty">> =>
              /\ crawl.pc = "done"
              /\ RequestedPages = <<1, 2, 3, 4>>
              /\ crawl.returned = 2 * PerPage

\* C10's case: pages 1 and 2 had items, pages 3 and 4 had none, the crawl is
\* exhausted below its cap.
C10_Witness ==
    /\ Outcomes = <<"items", "items", "empty", "empty">>
    /\ EveryPageServed
    /\ crawl.stop = "exhausted"
    /\ crawl.max_pages > 4

\* ------------------------------------------------------------ claims C6, C7
\* The catalog rows of a shop.
RowsOf(s) == {i \in 1..Len(products) : products[i].shop = s}

\* The shops whose scraper failed in this run.
FailedShops == {s \in OrchShopSet : futures[s].failed}

\* How often a shop's result was put on the queue.
TimesEnqueued(s) == Cardinality({i \in 1..Len(enqueued) : enqueued[i] = s})

Position(seq, s) == CHOOSE i \in 1..Len(seq) : seq[i] = s

\* C7: results are put on the queue in completion order: of two results on the
\* queue, the one put first belongs to the shop whose crawl returned first.
C7_EnqueuedInCompletionOrder ==
    \A i, j \in 1..Len(enqueued) :
        i < j => Position(completed, enqueued[i]) < Position(completed, enqueued[j])

\* ---------------------------------------------------------- claims C11, C12
\* The outcomes that are a transient error of the request.
TransientErrors == {"timeout", "connection_error"}

\* The outcomes of a page that failed: no page of the shop's results was served.
FailedOutcomes ==
    {"timeout", "connection_error", "request_error", "http_403", "http_500",
     "challenge"}

\* C11: a page whose request meets a transient error (timeout, connection
\* error) is requested again, and is given up as failed only after 3 attempts
\* in total; no page is requested more than 3 times.
C11_TransientErrorRetriedThrice ==
    \A i \in 1..Len(fetched) :
        /\ fetched[i].attempts <= 3
        /\ fetched[i].outcome \in TransientErrors => fetched[i].attempts = 3

\* C12: after a page has failed (network error, HTTP error status, blocked
\* response) the consecutive-empty count has been incremented and the crawl
\* has not been ended by the failure: it goes on with the next page, or
\* stops by the two-empty-pages rule or the page cap.
C12_FailedPageCountsAsEmpty ==
    (fetched # <<>> /\ fetched[Len(fetched)].outcome \in FailedOutcomes) =>
        /\ crawl.consecutive_empty >= 1
        /\ crawl.stop \in {"running", "cap", "exhausted"}
        /\ crawl.stop = "running" => crawl.page = fetched[Len(fetched)].page + 1

\* ---------------------------------------------------------------- claim C13
\* C13: a shop crawl is bounded by a deadline, so a run ends even when a
\* scraper call never returns by itself: the run of the category is
\* eventually over.
C13_RunEndsDespiteSlowShop == <>(main.pc = "done")


\* ------------------------------------------------ claims about failing writes
\* The products of the batch of shop s that starts at index i.
BatchItems(s, i) ==
    LET prods == futures[s].products
    IN  {prods[j] : j \in i..Min(i + batch_size - 1, Len(prods))}

\* A row for the product exists in the shop's catalog.
Persisted(s, it) ==
    \E i \in 1..Len(products) :
        /\ products[i].shop = s
        /\ products[i].url \in {it.link, normalize_product_url(it.link)}

WasSkipped(s, i) == \E b \in skipped : b.shop = s /\ b.start = i

\* C14: when populate_catalog has ended, of every shop whose save was not given
\* up, every batch whose own write did not fail is saved, whatever failed
\* before it (an earlier batch of the shop, a batch of an earlier shop, the
\* whole save of an earlier shop), and a batch whose write failed left nothing.
C14_FailedBatchSkippedOthersSaved ==
    (command = "populate_catalog" /\ main.pc = "done") =>
        \A s \in OrchShopSet \ gave_up :
            \A i \in BatchStarts(Len(futures[s].products)) :
                IF WasSkipped(s, i)
                THEN \A it \in BatchItems(s, i) : ~Persisted(s, it)
                ELSE \A it \in BatchItems(s, i) : Persisted(s, it)

\* C14's case: populate_catalog has ended; the first batch of the first shop
\* queued was skipped, the second batch of that shop is saved, and so is every
\* product of the shop queued after it.
C14_Witness ==
    /\ command = "populate_catalog" /\ main.pc = "done"
    /\ Len(enqueued) >= 2
    /\ LET s == enqueued[1]
           t == enqueued[2]
       IN  /\ futures[s].products = LongResult /\ futures[t].products = LongResult
           /\ WasSkipped(s, 1) /\ ~WasSkipped(s, 1 + batch_size)
           /\ \A it \in BatchItems(s, 1) : ~Persisted(s, it)
           /\ \A it \in BatchItems(s, 1 + batch_size) : Persisted(s, it)
           /\ \A i \in 1..Len(LongResult) : Persisted(t, LongResult[i])

\* The shops in the order a run saves them.
SaveOrder == IF command = "populate_catalog" THEN enqueued ELSE GatheredShops

SavedBefore(s, t) ==
    \E i, j \in 1..Len(SaveOrder) : i < j /\ SaveOrder[i] = s /\ SaveOrder[j] = t

\* C15: a failed write takes back its own batch and nothing else: no product of
\* the batch is persisted, while the batches of the shop before it, and the
\* shops saved before its shop, stay persisted (unless their own write failed).
C15_FailedWriteRollsBackOnlyItsBatch ==
    \A b \in skipped :
        /\ \A it \in BatchItems(b.shop, b.start) : ~Persisted(b.shop, it)
        /\ \A i \in BatchStarts(Len(futures[b.shop].products)) :
               (i < b.start /\ ~WasSkipped(b.shop, i))
                   => \A it \in BatchItems(b.shop, i) : Persisted(b.shop, it)
        /\ \A s \in OrchShopSet \ gave_up :
               (SavedBefore(s, b.shop) /\ \A c \in skipped : c.shop # s)
                   => \A i \in 1..Len(futures[s].products) :
                          Persisted(s, futures[s].products[i])

\* C16: populate_catalog skips a batch only after its write was tried again:
\* more than once, and not more often than the bound of the retries.
C16_SkippedBatchWasRetried ==
    command = "populate_catalog" =>
        \A b \in skipped : b.attempts > 1 /\ b.attempts <= worker_max_retries

\* C19: a run never ends without its report, and the report of a run that has
\* ended carries the counts of what was saved (the table is empty when the run
\* starts, so the rows it holds are the rows created), also when a scraper
\* failed or a save failed.
C19_RunCompletesWithCounts ==
    /\ main.pc # "crashed"
    /\ main.pc = "done" => (report.status = "counts" /\ report.created = Len(products))

\* ------------------------------------------------------- claims C17 and C18
\* C17: a batch of populate_catalog issues at most one create or update per
\* distinct normalized URL it was handed, whether the URL is in the catalog
\* already or not: the counts it returns do not exceed the distinct URLs.
C17_OneWritePerUrlInBatch ==
    last.path = "populate_catalog" => last.created + last.updated <= last.urls

\* This step saved a single item that carries its normalized URL, and the shop
\* had no entry under that URL before.
SavedNew ==
    /\ Len(last'.items) = 1
    /\ last'.path # "none"
    /\ ~IsPlaceholderLink(last'.items[1].link)
    /\ normalize_product_url(last'.items[1].link) = last'.items[1].link
    /\ Entries(products, last'.shop, last'.items[1].link) = {}
    /\ vars' # vars

\* C18: ingesting an item that matches no entry of its (shop, normalized URL)
\* inserts one entry, with exactly one price-history row when the item has a
\* price and none when it has not.
C18_NewEntryGetsBaselineRow ==
    [][SavedNew =>
          \E pk \in 1..Len(products') :
              /\ Entries(products', last'.shop, last'.items[1].link) = {pk}
              /\ Len(HistoryOf(history', pk)) =
                     IF IsInvalidPrice(last'.items[1].price) THEN 0 ELSE 1]_vars

\* ---------------------------------------------------------------- claim C20
\* C20: a request whose get finds an entry for its key that has not expired
\* (a result an earlier request assembled and cached) responds with the data of
\* that entry and calls no scraper, whatever the data is.
C20_CacheHitInvokesNoAdapter ==
    \A r \in Requests :
        request[r].found =>
            /\ ~request[r].scraped
            /\ request[r].pc = "done" => request[r].response = request[r].found_data

\* ---------------------------------------------------------------- claim C21
RECURSIVE Squeeze(_)
\* A query with every run of inner whitespace reduced to one space.
Squeeze(q) ==
    IF Len(q) < 2 THEN q
    ELSE IF IsSpace(q[1]) /\ IsSpace(q[2]) THEN Squeeze(Tail(q))
    ELSE <<Head(q)>> \o Squeeze(Tail(q))

\* Two queries differ only in letter case or in whitespace.
SameQuery(p, q) ==
    Squeeze(str_strip(str_lower(p))) = Squeeze(str_strip(str_lower(q)))

\* C21: queries that differ only in letter case or whitespace have the same
\* cache key, so a request about to look up its query finds the entry whenever
\* the cache holds one, not expired, that was stored for such a query.
C21_SameQuerySameKey ==
    \A r \in Requests :
        request[r].pc = "get" =>
            \A q \in Queries :
                (/\ SameQuery(q, request[r].product)
                 /\ cache[generate_key(q)].present
                 /\ ~(clock > cache[generate_key(q)].expires_at))
                    => /\ generate_key(q) = generate_key(request[r].product)
                       /\ cache[generate_key(request[r].product)].present

\* ---------------------------------------------------------------- claim C22
\* The request is inside its call of get.
InGet(req) == req.pc \in {"get", "get_entry", "get_del"}

\* C22: a get returns an entry only at a time not after its expiry time; a get
\* that reads an entry after its expiry time goes on to delete it and returns
\* a miss; and a request that missed ends only after it called the scrapers
\* and stored their result under its key with an expiry time of the time of
\* the set plus the ttl.
C22_ExpiredEntryIsMiss ==
    [][\A r \in Requests :
          LET key == generate_key(request[r].product)
          IN  /\ (InGet(request[r]) /\ request'[r].found)
                     => /\ cache[key].present /\ clock <= cache[key].expires_at
                        /\ request'[r].response = cache[key].data
              /\ (/\ request[r].pc = "get_entry" /\ request'[r].pc # "get_entry"
                  /\ cache[key].present /\ clock > cache[key].expires_at)
                     => request'[r].pc = "get_del"
              /\ (request[r].pc = "get_del" /\ request'[r].pc = "clear")
                     => (~request'[r].found /\ ~cache'[key].present)
              /\ (request[r].pc = "set" /\ request'[r].pc = "done")
                     => /\ request'[r].scraped
                        /\ cache'[key] = Entry(request'[r].response, clock + default_ttl)
              /\ (request[r].pc # "done" /\ request'[r].pc = "done" /\ ~request'[r].found)
                     => request[r].pc = "set"]_vars

\* C22's case: a request whose get met an expired entry has ended: it called
\* the scrapers and the cache holds its response under its key, not expired.
C22_Witness ==
    \E r \in Requests :
        LET key == generate_key(request[r].product)
        IN  /\ request[r].pc = "done" /\ request[r].stale /\ request[r].scraped
            /\ cache[key].present /\ cache[key].data = request[r].response
            /\ cache[key].expires_at > clock

\* ---------------------------------------------------------------- claim C23
\* The request is in the middle of a get, a set or a clear_expired.
InCacheCall(req) == req.pc \in {"get_entry", "get_del", "clear_iter", "clear_del"}

\* C23: whatever the interleaving of the requests, at most one of them is
\* inside a call of the cache at a time, none ends with an exception of a
\* cache call, and no step removes an entry that has not expired.
C23_CacheSafeUnderConcurrency ==
    [][/\ \A r, t \in Requests :
             (InCacheCall(request'[r]) /\ InCacheCall(request'[t])) => r = t
       /\ \A r \in Requests : request'[r].error \notin {"KeyError", "RuntimeError"}
       /\ \A k \in Keys :
             (cache[k].present /\ clock <= cache[k].expires_at) => cache'[k].present]_vars


\* ---------------------------------------------------------------- claim C24
\* C24: a request that called the scrapers does not end with an exception of
\* the fan-out, and when it has ended its response lists exactly the shops
\* whose scraper returned products, whatever the other scrapers did.
C24_SucceededShopsReturned ==
    \A r \in Requests :
        request[r].scraped =>
            /\ request[r].error # "PlaywrightError"
            /\ request[r].pc = "done" =>
                   request[r].response = ShopsWithResults(request[r].succeeded)

\* ---------------------------------------------------------------- claim C25
\* C25: a dynamic scraper's call that has ended, by its return or by an
\* exception, has left no page open, and when run_dynamic has ended, on any
\* path, neither the context nor the browser nor a page is open.
C25_PagesClosedOnEveryExit ==
    /\ \A a \in DynamicScrapers :
           session.call[a].state \in {"returned", "raised"} => session.call[a].page # "open"
    /\ session.pc \in {"done", "raised"} =>
           /\ session.browser # "open" /\ session.context # "open"
           /\ \A a \in DynamicScrapers : session.call[a].page # "open"

\* ---------------------------------------------------------------- claim C26
\* C26: normalizing a link that normalize_product_url has already returned
\* gives that same link: normalize(normalize(u)) = normalize(u).
C26_NormalizeIsIdempotent ==
    norm.pc = "again" => norm.again = norm.normalized

\* C26 witness: a link with an escaped parameter value and a listing parameter,
\* which the first normalization rewrote, has been normalized twice.
C26_Witness ==
    /\ norm.pc = "again"
    /\ norm.normalized # norm.url
    /\ \E i \in 1..Len(norm.url.query) : norm.url.query[i].v = "a%20b"
    /\ \E i \in 1..Len(norm.url.query) : norm.url.query[i].k = "page"
    /\ norm.normalized.query # <<>>

\* ---------------------------------------------------------------- claim C27
\* C27: two links that differ only in the listing parameters (page, search, q,
\* keyword, sort, order, limit: present or not, their values, their places) or
\* in the fragment normalize to the same link.
C27_ListingParamsDoNotMatter ==
    norm.pc = "other" => norm.other_normalized = norm.normalized

\* C27 witness: two different links of one product, one with a page parameter
\* and one with a fragment, both carrying a product parameter, were normalized.
C27_Witness ==
    /\ norm.pc = "other"
    /\ norm.other.query # norm.url.query
    /\ norm.other.frag # norm.url.frag
    /\ \E i \in 1..Len(norm.url.query) : norm.url.query[i].k = "page"
    /\ norm.normalized.query # <<>>

\* ---------------------------------------------------------------- claim C28
\* The values, unescaped and in order, that the query q gives the name k.
ValuesOf(q, k) ==
    LET Named(p) == unquote_plus(p.k) = k
        named == SelectSeq(q, Named)
    IN  [i \in 1..Len(named) |-> unquote_plus(named[i].v)]

\* C28: normalize_product_url leaves the path alone and keeps every query
\* parameter whose name is not a listing parameter, with all its values.
C28_OtherParamsPreserved ==
    norm.pc = "normalized" =>
        /\ norm.normalized.path = norm.url.path
        /\ \A i \in 1..Len(norm.url.query) :
               LET k == unquote_plus(norm.url.query[i].k)
               IN  Lower(k) \notin ListingParams =>
                       ValuesOf(norm.normalized.query, k) = ValuesOf(norm.url.query, k)

\* ---------------------------------------------------------------- claim C29
\* The first run of digit and separator characters of text: the places i..j of
\* a run that cannot be extended, with no run character before it.
FirstRuns(text) ==
    {r \in (1..Len(text)) \X (1..Len(text)) :
        /\ r[1] <= r[2]
        /\ \A i \in r[1]..r[2] : text[i] \in RunChars
        /\ \A i \in 1..(r[1] - 1) : text[i] \notin RunChars
        /\ r[2] = Len(text) \/ text[r[2] + 1] \notin RunChars}

\* C29: normalize_price returns the number written by the first run of digits
\* and separators of the text, its commas removed ("TK 12,500.00" gives
\* 12500.00), and returns an out-of-stock string, never a number, when the text
\* has no such run or the run is not a number ("Out of Stock" and "" give it).
C29_PriceIsFirstRunOrOutOfStock ==
    norm.pc = "priced" =>
        /\ FirstRuns(norm.text) = {} =>
               ~norm.price.is_number /\ norm.price.text = OutOfStockNoMatch
        /\ \A r \in FirstRuns(norm.text) :
               LET NotComma(c) == c # ","
                   written == SelectSeq(SubSeq(norm.text, r[1], r[2]), NotComma)
               IN  IF IsFloatText(written)
                   THEN norm.price.is_number /\ norm.price.value = float(written)
                   ELSE ~norm.price.is_number /\ norm.price.text = OutOfStockNoFloat
        /\ norm.text = TakaText =>
               norm.price.is_number /\ norm.price.value = Number(12500, <<>>)
        /\ norm.text \in {OutOfStockText, <<>>} => ~norm.price.is_number

\* C29 witness: "TK 12,500.00" has been given to normalize_price, which
\* returned a number.
C29_Witness ==
    /\ norm.pc = "priced"
    /\ norm.text = TakaText
    /\ norm.price.is_number

\* ---------------------------------------------------------------- claim C30
\* C30: a result page with a malformed card (an <img> without src) does not
\* abort the page or the crawl: the page's other cards are collected, the
\* crawl does not end on an exception, and if it ends after that page it
\* returns every item collected so far, those of the earlier pages included.
C30_MalformedCardDoesNotAbortPage ==
    [][(/\ Len(fetched') = Len(fetched) + 1
        /\ fetched'[Len(fetched')].outcome = "malformed")
       => /\ crawl'.products >= crawl.products + (PerPage - 1)
          /\ crawl'.stop \notin {"exception", "error"}
          /\ crawl'.pc = "done" => crawl'.returned = crawl'.products]_vars

\* ---------------------------------------------------------------- claim C31
\* C31: within one crawl the pages are requested one at a time and in strictly
\* increasing page-number order: a step of the crawl makes at most one
\* request, for the page the cursor points at, every earlier request has its
\* outcome by then, and each request is for a higher page than all before it.
C31_PagesRequestedInIncreasingOrder ==
    [][/\ Len(fetched') <= Len(fetched) + 1
       /\ Len(fetched') = Len(fetched) + 1 =>
              /\ SubSeq(fetched', 1, Len(fetched)) = fetched
              /\ fetched'[Len(fetched')].page = crawl.page
              /\ fetched'[Len(fetched')].outcome \in Responses
              /\ \A i \in 1..Len(fetched) :
                     /\ fetched[i].outcome \in Responses
                     /\ fetched[i].page < fetched'[Len(fetched')].page]_vars

\* C31 witness: a crawl has requested three pages and got items, a timeout and
\* an empty page.
C31_Witness ==
    /\ Len(fetched) >= 3
    /\ fetched[1].outcome = "items"
    /\ \E i \in 1..Len(fetched) : fetched[i].outcome = "timeout"
    /\ \E i \in 1..Len(fetched) : fetched[i].outcome = "empty"
    /\ \A i \in 1..(Len(fetched) - 1) : fetched[i].page < fetched[i + 1].page

\* ---------------------------------------------------------------- claim C32
\* C32: an ingestion run deletes no catalog entry and neither changes nor
\* deletes a price-history row: every entry that existed before the run is
\* still there under its (shop, url) key and every history row that existed
\* before the run is unchanged.
C32_IngestionOnlyAdds ==
    [][/\ Len(products') >= Len(products)
       /\ \A i \in 1..Len(products) :
              /\ products'[i].shop = products[i].shop
              /\ products'[i].url = products[i].url
       /\ Len(history') >= Len(history)
       /\ SubSeq(history', 1, Len(history)) = history]_vars

\* C32 witness: a product has two history rows with different prices and the
\* entry carries the later price: a run has updated an entry that had history.
C32_Witness ==
    \E i, j \in 1..Len(history) :
        /\ i < j
        /\ history[i].product = history[j].product
        /\ history[i].price # history[j].price
        /\ products[history[j].product].price = history[j].price

\* ---------------------------------------------------------------- claim C33
\* C33: every iteration of a crawl's page loop either ends the crawl or moves
\* the page cursor up, and a crawl requests at most max_pages pages, none of
\* them beyond max_pages, whatever the pages' outcomes.
C33_CrawlTerminatesWithinCap ==
    [][/\ (crawl.pc = "loop" /\ crawl' # crawl) =>
              crawl'.pc = "done" \/ crawl'.page > crawl.page
       /\ Len(fetched') <= crawl'.max_pages
       /\ \A i \in 1..Len(fetched') : fetched'[i].page <= crawl'.max_pages]_vars

\* C33 witness: a crawl with a cap of at least three pages has ended after
\* requesting as many pages as the cap allows, a timeout and an HTTP error
\* among their outcomes.
C33_Witness ==
    /\ crawl.pc = "done" /\ crawl.max_pages >= 3
    /\ Len(fetched) = crawl.max_pages
    /\ \E i \in 1..Len(fetched) : fetched[i].outcome = "timeout"
    /\ \E i \in 1..Len(fetched) : fetched[i].outcome \in {"http_403", "http_500"}

\* ---------------------------------------------------------------- claim C34
\* C34: a crawl skips no page number: the pages requested so far are 1, 2, 3,
\* ... up to the last requested page, so after a failed or empty page N the
\* next page requested is N + 1.
C34_NoPageSkipped == RequestedPages = Pages(Len(fetched))

\* ---------------------------------------------------------------- claim C35
\* C35: a crawl that collected products from its first page and ended on a
\* later page because of an error (a request exception, an HTTP error status,
\* an exception while parsing) returns the products it collected: they are
\* not replaced by an empty result.
C35_ErrorKeepsEarlierProducts ==
    (/\ crawl.pc = "done" /\ crawl.stop \in {"exception", "error", "errors"}
     /\ Len(fetched) >= 2 /\ fetched[1].outcome = "items")
        => crawl.returned = crawl.products /\ crawl.returned >= PerPage

\* ---------------------------------------------------------------- claim C36
\* The update runs started through trigger_update that have not ended.
RunsInProgress == {r \in Posts : update.run[r] \in {"started", "running"}}

\* C36: at most one update run started through trigger_update is in progress
\* at any time: a POST that arrives while a run is in progress is answered
\* 'already_running' and starts no second run.
C36_OneUpdateRunAtATime == Cardinality(RunsInProgress) <= 1

\* ---------------------------------------------------------------- claim C37
\* The shops whose results wait in the queue or are being saved, oldest first.
Pending ==
    LET IsResult(item) == item # Sentinel
        waiting == SelectSeq(data_queue, IsResult)
    IN  (IF worker.pc = "save" THEN <<worker.item.shop>> ELSE <<>>)
            \o [i \in 1..Len(waiting) |-> waiting[i].shop]

\* Every result put on the queue is pending or was processed, in the order of
\* the puts, and none twice; task_done() has been called for the processed ones.
QueueAccounted ==
    /\ \A i, j \in 1..Len(enqueued) : enqueued[i] = enqueued[j] => i = j
    /\ Len(Pending) <= Len(enqueued)
    /\ Pending = SubSeq(enqueued, Len(enqueued) - Len(Pending) + 1, Len(enqueued))
    /\ unfinished_tasks = Len(data_queue) + (IF worker.pc \in {"save", "stopped"} THEN 1 ELSE 0)

\* The main thread waits in data_queue.join() or in save_thread.join() only
\* while the save worker has a step to take.
NotBlocked ==
    /\ main.pc = "join" =>
           \/ unfinished_tasks = 0
           \/ worker.pc = "save"
           \/ worker.pc = "get" /\ data_queue # <<>>
    /\ main.pc = "stop" =>
           \/ worker.pc \in {"save", "stopped"}
           \/ worker.pc = "get" /\ data_queue # <<>>

\* What the save worker still has to do at most: the attempts left for the
\* item it is saving and a get and all the attempts for each item in the queue.
WorkLeft ==
    Len(data_queue) * (worker_max_retries + 1)
        + (IF worker.pc = "save" THEN worker_max_retries - worker.attempt ELSE 0)

\* C37: in populate_catalog every result put on the queue is taken and
\* processed by the save worker exactly once, in order; the worker stops only
\* on the stop sentinel; the category is over (and the next one starts) only
\* when every result has been processed; and the run does not block on the
\* queue: while the main thread waits the worker has a step to take, and each
\* step of the worker brings it nearer to its end.
C37_QueueDrainedOncePerCategory ==
    [][command' = "populate_catalog" =>
          /\ QueueAccounted'
          /\ main'.pc \in {"stop", "done"} => (Pending' = <<>> /\ Len(enqueued') = NumShops)
          /\ worker'.pc = "stopped" => (main'.pc \in {"stop", "done"} /\ data_queue' = <<>>)
          /\ NotBlocked'
          /\ worker' # worker => WorkLeft' < WorkLeft]_vars

\* C37 witness: a category of populate_catalog is over, one shop's result was
\* given up after its attempts and another shop's products were saved.
C37_Witness ==
    /\ command = "populate_catalog" /\ main.pc = "done"
    /\ gave_up # {}
    /\ Len(products) > 0
    /\ Len(enqueued) = NumShops

\* ---------------------------------------------------------------- claim C38
\* The catalog entries that existed before the call and whose URL one of the
\* call's items carries: the entries the call modifies.
EntriesOfItems(call) ==
    {i \in 1..Len(products) :
        \E k \in 1..Len(call.items) :
            /\ ~IsPlaceholderLink(call.items[k].link)
            /\ products[i].shop = call.shop
            /\ products[i].url = normalize_product_url(call.items[k].link)}

HoldersOf(x) == {c \in PoolCallers : pool.held[c] = x}

\* The contexts of the pool that its callers hold.
CheckedOut == {x \in Range(pool.contexts) : HoldersOf(x) # {}}

\* C39: in an initialized BrowserPool every context of the pool is in the
\* available queue or held by exactly one caller, also after a return_context
\* in which closing a page failed; so the queue is not empty, and get_context
\* does not wait, while fewer than pool_size contexts are checked out.
C39_PoolContextsAccounted ==
    pool.initialized =>
        /\ \A x \in Range(pool.contexts) :
               \/ x \in Range(pool.available) /\ HoldersOf(x) = {}
               \/ x \notin Range(pool.available) /\ Cardinality(HoldersOf(x)) = 1
        /\ Cardinality(CheckedOut) < pool_size => pool.available # <<>>

\* ---------------------------------------------------------------- claim C40
\* C40: get_context never hands out a context that cleanup closed, and after
\* an initialize that follows a cleanup or a failed initialize the available
\* queue holds the pool_size new contexts and none of the closed ones.
C40_NoClosedContextHandedOut ==
    [][/\ \A c \in PoolCallers :
              (pool.held[c] = 0 /\ pool'.held[c] # 0) => pool'.held[c] \notin pool'.closed
       /\ (~pool.initialized /\ pool'.initialized) =>
              /\ Len(pool'.contexts) = pool_size
              /\ Range(pool'.available) \cup ({pool'.held[c] : c \in PoolCallers} \ {0})
                     = Range(pool'.contexts)
              /\ Range(pool'.available) \cap pool'.closed = {}]_vars
=============================================================================
